---- MODULE Spec2Model ----
(***************************************************************************)
(* The adaptive time-sliced execution engine of Clione:                    *)
(*   - LiveTWAPExecutor  (src/src/core/trade/twapExecutor.ts)              *)
(*   - RiskManager       (src/src/core/trade/riskManager.ts)               *)
(*   - the sizing, rounding and price formatting helpers they call         *)
(*     (vwapEnhancedTWAP.ts, hyperliquid/formatting.ts)                    *)
(*   - the order-book analysis (hyperliquid/orderbook.ts)                  *)
(*   - simulateVWAPEnhancedTWAP (vwapEnhancedTWAP.ts)                      *)
(*                                                                         *)
(* Numbers.  JavaScript numbers are modelled as exact decimals/rationals:  *)
(*   sizes          integers, in units of 10^-7 token  (SizeUnit)          *)
(*   market prices  integers, in units of 10^-3 dollar (milli-dollars)     *)
(*   order prices   integers, in units of 10^-6 dollar (MAX_DECIMALS_PERP) *)
(*   ratios         records [n, d] in lowest terms, d > 0; d = 0 for NaN   *)
(*                  and the infinities                                     *)
(* The rounding of doubles is modelled where the formatter divides by a    *)
(* power of ten that is not a double (prices of ten digits).               *)
(***************************************************************************)
EXTENDS Integers, Sequences, FiniteSets, TLC

(***************************************************************************)
(* Bounds of the model.                                                    *)
(***************************************************************************)
\* accepted execute() calls explored on one executor
MaxRuns == 2
\* checkRiskLimits is explored while the alert log is shorter than this
MaxAlertLog == 2
\* updateVWAP calls explored on one VWAP state
MaxAbsorbs == 2

(***************************************************************************)
(* Arithmetic helpers.                                                     *)
(***************************************************************************)
Abs(x) == IF x < 0 THEN -x ELSE x

RECURSIVE GCD(_, _)
GCD(a, b) == IF b = 0 THEN a ELSE GCD(b, a % b)

RECURSIVE Pow10(_)
Pow10(k) == IF k <= 0 THEN 1 ELSE 10 * Pow10(k - 1)

\* the ratio n/d (d > 0) in lowest terms
Rat(n, d) == LET g == GCD(Abs(n), d) IN [n |-> n \div g, d |-> d \div g]

RatOne == [n |-> 1, d |-> 1]
RatLT(a, b) == a.n * b.d < b.n * a.d
RatMul(a, b) == Rat(a.n * b.n, a.d * b.d)
RatAdd(a, b) == Rat(a.n * b.d + b.n * a.d, a.d * b.d)
RatMax(a, b) == IF RatLT(a, b) THEN b ELSE a
RatMin(a, b) == IF RatLT(a, b) THEN a ELSE b
RatInverse(a) == [n |-> a.d, d |-> a.n]
RatMinus(a, b) == RatAdd(a, [n |-> 0 - b.n, d |-> b.d])

\* the numbers that are not finite: d = 0, the sign of n telling which
NaN == [n |-> 0, d |-> 0]
PosInf == [n |-> 1, d |-> 0]
NegInf == [n |-> 0 - 1, d |-> 0]
IsFinite(a) == a.d # 0
\* a > b on numbers: false when either is NaN
GreaterThan(a, b) == a # NaN /\ b # NaN /\ RatLT(b, a)

\* number of decimal digits of v >= 1
RECURSIVE Digits(_)
Digits(v) == IF v < 10 THEN 1 ELSE 1 + Digits(v \div 10)

\* number of trailing decimal zeros of v >= 1
RECURSIVE TrailingZeros(_)
TrailingZeros(v) == IF v % 10 # 0 THEN 0 ELSE 1 + TrailingZeros(v \div 10)

\* Math.round / toFixed on a non-negative value: v rounded half-up to a
\* multiple of q
RoundToMultiple(v, q) == IF q = 1 THEN v ELSE ((v + q \div 2) \div q) * q

(***************************************************************************)
(* Program constants.                                                      *)
(***************************************************************************)
\* formatting.ts
MAX_DECIMALS_PERP == 6
MAX_DECIMALS_SPOT == 8
MAX_SIGNIFICANT_FIGURES == 5
\* twapExecutor.ts executeOrder: 0.001 and 0.75, in thousandths
slippageBuffer == 1
maxPriceDeviation == 750
\* twapExecutor.ts getMarketInformation: size precision when the metadata has none
DefaultAssetDecimals == 4
\* vwapEnhancedTWAP.ts simulateVWAPEnhancedTWAP: "Default fallback"
SimulationDefaultDecimals == 4
\* vwapEnhancedTWAP.ts calculateSlippageProtectedOrderSize: "Max 10% of market depth"
ProtectionMaxVolumePercent == 10
\* sizes are kept in units of 10^-7 token
SizeUnit == Pow10(7)

(***************************************************************************)
(* vwapEnhancedTWAP.ts: initializeVWAP, calculateVWAPOrderSize,            *)
(* roundOrderSizeForAsset.                                                 *)
(***************************************************************************)
\* a null entry of a candle array
NullCandle == [null |-> TRUE]
IsNull(c) == DOMAIN c = {"null"}

ValidCandle(c) == ~IsNull(c) /\ c.high > 0 /\ c.low > 0 /\ c.close > 0 /\ c.volume > 0

\* three times the sum of typicalPrice * volume over the valid candles
RECURSIVE SumPV3(_)
SumPV3(cs) ==
  IF cs = <<>> THEN 0
  ELSE (IF ValidCandle(Head(cs))
          THEN (Head(cs).high + Head(cs).low + Head(cs).close) * Head(cs).volume
          ELSE 0) + SumPV3(Tail(cs))

RECURSIVE SumVolume(_)
SumVolume(cs) ==
  IF cs = <<>> THEN 0
  ELSE (IF ValidCandle(Head(cs)) THEN Head(cs).volume ELSE 0) + SumVolume(Tail(cs))

\* three times the sum of the typical prices of all candles
RECURSIVE SumHLC(_)
SumHLC(cs) ==
  IF cs = <<>> THEN 0
  ELSE Head(cs).high + Head(cs).low + Head(cs).close + SumHLC(Tail(cs))

\* initializeVWAP throws: its sanity check reads c.high of every entry
initializeVWAPThrows(candles) == \E k \in 1..Len(candles) : IsNull(candles[k])

\* the value initializeVWAP returns when it does not throw
initializeVWAP(candles) ==
  IF candles = <<>>
    THEN [vwap |-> Rat(0, 1), cumulativePV |-> Rat(0, 1), cumulativeVolume |-> 0]
    ELSE LET pv3    == SumPV3(candles)
             vol    == SumVolume(candles)
             vwap   == IF vol > 0 THEN Rat(pv3, 3 * vol) ELSE Rat(0, 1)
             avgHLC3 == Rat(SumHLC(candles), 3 * Len(candles))
         IN [vwap |-> IF vwap.n <= 0 THEN avgHLC3 ELSE vwap,
             cumulativePV |-> Rat(pv3, 3),
             cumulativeVolume |-> vol]

\* three times the typical price of a candle, times its volume
PV3(c) == (c.high + c.low + c.close) * c.volume

\* mutant: the average is not recomputed
updateVWAP_KeepsOldVWAP(vwapData, newCandle) ==
  IF IsNull(newCandle) THEN vwapData
  ELSE [vwap |-> vwapData.vwap,
        cumulativePV |-> RatAdd(vwapData.cumulativePV, Rat(PV3(newCandle), 3)),
        cumulativeVolume |-> vwapData.cumulativeVolume + newCandle.volume]

updateVWAP(vwapData, newCandle) ==
  IF IsNull(newCandle) THEN vwapData
  ELSE LET newCumulativePV     == RatAdd(vwapData.cumulativePV, Rat(PV3(newCandle), 3))
           newCumulativeVolume == vwapData.cumulativeVolume + newCandle.volume
           newVWAP == IF newCumulativeVolume > 0
                        THEN Rat(newCumulativePV.n, newCumulativePV.d * newCumulativeVolume)
                        ELSE vwapData.vwap
       IN  [vwap |-> newVWAP,
            cumulativePV |-> newCumulativePV,
            cumulativeVolume |-> newCumulativeVolume]

\* resetVWAP; a null startingCandle is the call without argument
resetVWAP(startingCandle) ==
  IF IsNull(startingCandle)
    THEN [vwap |-> Rat(0, 1), cumulativePV |-> Rat(0, 1), cumulativeVolume |-> 0]
    ELSE [vwap |-> Rat(startingCandle.high + startingCandle.low + startingCandle.close, 3),
          cumulativePV |-> Rat(PV3(startingCandle), 3),
          cumulativeVolume |-> startingCandle.volume]

\* mutant: the deviation is taken with the opposite sign
calculateVWAPOrderSize_SignFlipped(baseSize, currentPrice, vwap, alpha, maxMultiplier, minMultiplier) ==
  IF baseSize.n = 0 \/ currentPrice.n <= 0 \/ vwap.n <= 0 \/ ~IsFinite(vwap)
     \/ ~IsFinite(currentPrice) \/ ~IsFinite(baseSize)
    THEN [adjustedSize |-> baseSize, multiplier |-> RatOne]
    ELSE LET priceDeviation == Rat(currentPrice.n * vwap.d - vwap.n * currentPrice.d,
                                   vwap.n * currentPrice.d)
             rawMultiplier  == Rat(alpha.d * priceDeviation.d + alpha.n * priceDeviation.n,
                                   alpha.d * priceDeviation.d)
             multiplier     == RatMax(minMultiplier, RatMin(maxMultiplier, rawMultiplier))
         IN [adjustedSize |-> RatMul(baseSize, multiplier), multiplier |-> multiplier]

calculateVWAPOrderSize(baseSize, currentPrice, vwap, alpha, maxMultiplier, minMultiplier) ==
  IF baseSize.n = 0 \/ currentPrice.n <= 0 \/ vwap.n <= 0
    THEN [adjustedSize |-> IF baseSize.n = 0 THEN Rat(0, 1) ELSE baseSize,   \* baseSize || 0
          multiplier |-> RatOne]
    ELSE LET priceDeviation ==
               IF ~IsFinite(vwap) THEN NaN                         \* Infinity / Infinity
               ELSE IF ~IsFinite(currentPrice) THEN NegInf
               ELSE Rat(vwap.n * currentPrice.d - currentPrice.n * vwap.d,
                        vwap.n * currentPrice.d)
             rawMultiplier ==
               IF priceDeviation = NaN THEN NaN
               ELSE IF ~IsFinite(priceDeviation)
                 THEN (IF alpha.n > 0 THEN NegInf
                       ELSE IF alpha.n = 0 THEN NaN ELSE PosInf)
               ELSE Rat(alpha.d * priceDeviation.d + alpha.n * priceDeviation.n,
                        alpha.d * priceDeviation.d)
             multiplier ==
               IF rawMultiplier = NaN THEN RatOne
               ELSE RatMax(minMultiplier, RatMin(maxMultiplier, rawMultiplier))
             adjustedSize ==
               IF IsFinite(baseSize) THEN RatMul(baseSize, multiplier)
               ELSE IF multiplier.n = 0 THEN baseSize              \* NaN: baseSize
               ELSE IF (baseSize.n > 0) = (multiplier.n > 0) THEN PosInf ELSE NegInf
         IN [adjustedSize |-> adjustedSize, multiplier |-> multiplier]

\* q + r/b carried to k more decimal digits, then rounded half-up (Math.round)
RECURSIVE RoundedDigits(_, _, _, _)
RoundedDigits(q, r, b, k) ==
  IF k = 0 THEN q + (IF 2 * r >= b THEN 1 ELSE 0)
  ELSE RoundedDigits(10 * q + (10 * r) \div b, (10 * r) % b, b, k - 1)

\* the result in SizeUnit units
roundOrderSizeForAsset(size, assetDecimals) ==
  RoundedDigits(size.n \div size.d, size.n % size.d, size.d, assetDecimals)
    * Pow10(7 - assetDecimals)

(***************************************************************************)
(* hyperliquid/formatting.ts.  A price is an integer number of             *)
(* 10^-maxDecimals dollars; the formatted string is the same kind of       *)
(* number, read as the shortest decimal (Number.prototype.toString).       *)
(***************************************************************************)
MaxDecimals(isSpot) == IF isSpot THEN MAX_DECIMALS_SPOT ELSE MAX_DECIMALS_PERP

\* digits from the first non-zero digit to the last digit of the shortest decimal
SignificantFigures(price) == Digits(price) - TrailingZeros(price)

formatHyperliquidPrice(price, szDecimals, isSpot) ==
  LET maxDecimals      == MaxDecimals(isSpot)
      maxDecimalPlaces == maxDecimals - szDecimals
      toFixed(x)       == RoundToMultiple(x, Pow10(maxDecimals - maxDecimalPlaces))
      roundedPrice     == RoundToMultiple(price, Pow10(Digits(price) - MAX_SIGNIFICANT_FIGURES))
  IN  IF price % Pow10(maxDecimals) = 0
        THEN [threw |-> FALSE, px |-> price]
      ELSE IF maxDecimalPlaces < 0
        THEN [threw |-> TRUE, px |-> 0]      \* toFixed: RangeError
      ELSE IF SignificantFigures(price) <= MAX_SIGNIFICANT_FIGURES
        THEN [threw |-> FALSE, px |-> toFixed(price)]
      ELSE [threw |-> FALSE, px |-> toFixed(roundedPrice)]

validateHyperliquidPrice(px, szDecimals, isSpot) ==
  LET maxDecimals      == MaxDecimals(isSpot)
      maxDecimalPlaces == maxDecimals - szDecimals
  IN  IF px % Pow10(maxDecimals) = 0 THEN TRUE
      ELSE IF maxDecimals - TrailingZeros(px) > maxDecimalPlaces THEN FALSE
      ELSE IF SignificantFigures(px) > MAX_SIGNIFICANT_FIGURES THEN FALSE
      ELSE TRUE

(***************************************************************************)
(* The same two functions on a price whole + 1/2 whose whole part has ten  *)
(* digits (10^9 <= whole < 2^31).  Here the multiplier of the rounding to  *)
(* five significant figures is Math.pow(10, -5), which is not a double:    *)
(* the nearest double is Mantissa * 2^-69 with                             *)
(*   Mantissa = MantissaHi * 2^23 + MantissaLo  and                        *)
(*   10^5 * Mantissa = 2^69 + MantissaExcess,                              *)
(* so n / multiplier is below n * 10^5 by n * MantissaExcess / Mantissa,   *)
(* and the division returns the double nearest to that quotient.           *)
(***************************************************************************)
MantissaHi == 703687441
MantissaLo == 6514929
MantissaExcess == 48288
Pow2(k) == 2 ^ k

\* doubles in [2^29, 2^30) are the multiples of 2^-23, in [2^30, 2^31) of 2^-22
UlpExponent(x) == IF x < Pow2(30) THEN 23 ELSE 22

\* how many ulps below n * 10^5 the double n / Math.pow(10, -5) lies
UlpsBelow(n) ==
  LET u == UlpExponent(n * Pow10(5))
      \* twice the distance n * MantissaExcess / Mantissa, in ulps, times Mantissa / 2^23
      twiceErr == Pow2(u - 22) * n * MantissaExcess
      \* twiceErr * 2^23 > k * Mantissa
      Above(k) == twiceErr > k * MantissaHi + (k * MantissaLo) \div Pow2(23)
  IN  IF ~Above(1) THEN 0 ELSE IF ~Above(3) THEN 1 ELSE 2

\* the result: whole dollars, and frac units of 10^-places dollars
formatHyperliquidPriceTenDigits(whole, szDecimals, isSpot) ==
  LET maxDecimals      == MaxDecimals(isSpot)
      maxDecimalPlaces == maxDecimals - szDecimals
      \* Math.round(price * multiplier) with price = whole + 1/2
      n                == (whole + 5 * Pow10(4)) \div Pow10(5)
      u                == UlpExponent(n * Pow10(5))
      \* roundedPrice = n * 10^5 - ulps * 2^-u
      ulps             == UlpsBelow(n)
      \* toFixed: the multiple of 10^-maxDecimalPlaces nearest to roundedPrice
      below            == (2 * ulps * Pow10(maxDecimalPlaces) + Pow2(u)) \div Pow2(u + 1)
  IN  IF maxDecimalPlaces < 0
        THEN [threw |-> TRUE, px |-> [whole |-> 0, frac |-> 0, places |-> 0]]
      ELSE IF below = 0
        THEN [threw |-> FALSE, px |-> [whole |-> n * Pow10(5), frac |-> 0, places |-> 0]]
      ELSE [threw |-> FALSE,
            px |-> [whole |-> n * Pow10(5) - 1,
                    frac |-> Pow10(maxDecimalPlaces) - below,
                    places |-> maxDecimalPlaces]]

\* the string has at most px.places decimals; each of them is significant
\* after the digits of the whole part
validateHyperliquidPriceTenDigits(px, szDecimals, isSpot) ==
  LET maxDecimals      == MaxDecimals(isSpot)
      maxDecimalPlaces == maxDecimals - szDecimals
      decimalPlaces    == px.places - TrailingZeros(px.frac)
  IN  IF px.frac = 0 THEN TRUE
      ELSE IF decimalPlaces > maxDecimalPlaces THEN FALSE
      ELSE IF Digits(px.whole) + decimalPlaces > MAX_SIGNIFICANT_FIGURES THEN FALSE
      ELSE TRUE

(***************************************************************************)
(* hyperliquid/orderbook.ts.  An order book is [bids, asks], each a        *)
(* sequence of levels [px, sz] in the order the venue returned them; px in *)
(* milli-dollars, sz in tokens.  Prices come back in the unit of px,       *)
(* percentages as ratios.                                                  *)
(***************************************************************************)
\* a goes before b: ascending prices for a buy, descending for a sell
GoesBefore(a, b, isBuy) == IF isBuy THEN a.px < b.px ELSE a.px > b.px

RECURSIVE InsertLevel(_, _, _)
InsertLevel(level, sorted, isBuy) ==
  IF sorted = <<>> THEN <<level>>
  ELSE IF GoesBefore(level, Head(sorted), isBuy) THEN <<level>> \o sorted
  ELSE <<Head(sorted)>> \o InsertLevel(level, Tail(sorted), isBuy)

\* mutant: the levels are taken in the order of the input
SortLevels_InputOrder(levels, isBuy) == levels

\* [...levels].sort(...): a sorted copy, levels of equal price in input order
RECURSIVE SortLevels(_, _)
SortLevels(levels, isBuy) ==
  IF levels = <<>> THEN <<>>
  ELSE InsertLevel(levels[Len(levels)],
                   SortLevels(SubSeq(levels, 1, Len(levels) - 1), isBuy), isBuy)

\* the loop of calculateSlippage over the sorted levels
RECURSIVE FillLevels(_, _, _, _)
FillLevels(levels, remainingSize, totalCost, depth) ==
  IF levels = <<>> \/ remainingSize <= 0
    THEN [totalCost |-> totalCost, remainingSize |-> remainingSize, depth |-> depth]
  ELSE LET sizeToTake == IF remainingSize < Head(levels).sz THEN remainingSize
                         ELSE Head(levels).sz
       IN  FillLevels(Tail(levels), remainingSize - sizeToTake,
                      totalCost + sizeToTake * Head(levels).px, depth + 1)

calculateSlippage(orderBook, size, isBuy) ==
  LET levels       == IF isBuy THEN orderBook.asks ELSE orderBook.bids
      sortedLevels == SortLevels(levels, isBuy)
      filled       == FillLevels(sortedLevels, size, 0, 0)
      wouldExecute == filled.remainingSize <= 0
      bestPrice    == sortedLevels[1].px
  IN  IF levels = <<>>
        THEN [estimatedPrice |-> Rat(0, 1), slippagePercent |-> Rat(100, 1),
              depth |-> 0, wouldExecute |-> FALSE]
      ELSE IF ~wouldExecute
        THEN [estimatedPrice |-> Rat(0, 1), slippagePercent |-> Rat(100, 1),
              depth |-> filled.depth, wouldExecute |-> FALSE]
      ELSE IF size = 0                                   \* totalCost / size = 0 / 0
        THEN [estimatedPrice |-> NaN, slippagePercent |-> NaN,
              depth |-> filled.depth, wouldExecute |-> TRUE]
      ELSE [estimatedPrice |-> Rat(filled.totalCost, size),
            slippagePercent |-> Rat(100 * Abs(filled.totalCost - bestPrice * size),
                                    bestPrice * size),
            depth |-> filled.depth, wouldExecute |-> TRUE]

RECURSIVE SumSz(_)
SumSz(levels) == IF levels = <<>> THEN 0 ELSE Head(levels).sz + SumSz(Tail(levels))

RECURSIVE MaxPx(_)
MaxPx(levels) ==
  IF Len(levels) = 1 THEN levels[1].px
  ELSE LET rest == MaxPx(Tail(levels))
       IN  IF levels[1].px > rest THEN levels[1].px ELSE rest

RECURSIVE MinPx(_)
MinPx(levels) ==
  IF Len(levels) = 1 THEN levels[1].px
  ELSE LET rest == MinPx(Tail(levels))
       IN  IF levels[1].px < rest THEN levels[1].px ELSE rest

analyzeMarketDepth(orderBook) ==
  LET bids    == orderBook.bids
      asks    == orderBook.asks
      bestBid == MaxPx(bids)
      bestAsk == MinPx(asks)
  IN  IF bids = <<>> \/ asks = <<>>
        THEN [totalBidVolume |-> 0, totalAskVolume |-> 0, bidDepth |-> 0, askDepth |-> 0,
              spread |-> 0, spreadPercent |-> Rat(0, 1), midPrice |-> Rat(0, 1)]
      ELSE [totalBidVolume |-> SumSz(bids), totalAskVolume |-> SumSz(asks),
            bidDepth |-> Len(bids), askDepth |-> Len(asks),
            spread |-> bestAsk - bestBid,
            spreadPercent |-> Rat(200 * (bestAsk - bestBid), bestBid + bestAsk),
            midPrice |-> Rat(bestBid + bestAsk, 2)]

\* mutant: every level is accumulated, whatever the slippage
WithinTolerance_Always(newCost, newVolume, bestPrice, maxSlippagePercent) == TRUE

\* the test of the loop of findMaxVolumeForSlippage: slippage > maxSlippagePercent
\* is false (a NaN slippage, from 0 / 0, compares false as well)
WithinTolerance(newCost, newVolume, bestPrice, maxSlippagePercent) ==
  \/ newVolume = 0
  \/ ~GreaterThan(Rat(100 * Abs(newCost - bestPrice * newVolume), bestPrice * newVolume),
                  maxSlippagePercent)

\* the loop of findMaxVolumeForSlippage: the volume accumulated at the break
RECURSIVE AccumulateLevels(_, _, _, _, _)
AccumulateLevels(levels, cumulativeVolume, totalCost, bestPrice, maxSlippagePercent) ==
  IF levels = <<>> THEN cumulativeVolume
  ELSE LET newVolume == cumulativeVolume + Head(levels).sz
           newCost   == totalCost + Head(levels).sz * Head(levels).px
       IN  IF ~WithinTolerance(newCost, newVolume, bestPrice, maxSlippagePercent)
             THEN cumulativeVolume
             ELSE AccumulateLevels(Tail(levels), newVolume, newCost, bestPrice,
                                   maxSlippagePercent)

findMaxVolumeForSlippage(orderBook, isBuy, maxSlippagePercent) ==
  LET levels       == IF isBuy THEN orderBook.asks ELSE orderBook.bids
      sortedLevels == SortLevels(levels, isBuy)
  IN  IF levels = <<>> THEN Rat(0, 1)
      ELSE Rat(9 * AccumulateLevels(sortedLevels, 0, 0, sortedLevels[1].px,
                                    maxSlippagePercent), 10)

\* suggested = FALSE: no suggestedMaxVolume in the result
checkVolumeConstraints(orderBook, totalVolume, isBuy, maxSlippagePercent, maxVolumePercent) ==
  LET marketDepth    == analyzeMarketDepth(orderBook)
      relevantVolume == IF isBuy THEN marketDepth.totalAskVolume
                        ELSE marketDepth.totalBidVolume
      volumePercent  == IF relevantVolume # 0 THEN Rat(100 * totalVolume, relevantVolume)
                        ELSE IF totalVolume = 0 THEN NaN ELSE PosInf
      slippageInfo   == calculateSlippage(orderBook, totalVolume, isBuy)
  IN  IF GreaterThan(volumePercent, maxVolumePercent)
        THEN [canHandle |-> FALSE, suggested |-> TRUE,
              suggestedMaxVolume |-> Rat(relevantVolume * maxVolumePercent.n,
                                         100 * maxVolumePercent.d)]
      ELSE IF ~slippageInfo.wouldExecute
        THEN [canHandle |-> FALSE, suggested |-> TRUE,
              suggestedMaxVolume |-> Rat(8 * relevantVolume, 10)]
      ELSE IF GreaterThan(slippageInfo.slippagePercent, maxSlippagePercent)
        THEN [canHandle |-> FALSE, suggested |-> TRUE,
              suggestedMaxVolume |-> findMaxVolumeForSlippage(orderBook, isBuy,
                                                              maxSlippagePercent)]
      ELSE [canHandle |-> TRUE, suggested |-> FALSE, suggestedMaxVolume |-> Rat(0, 1)]

(***************************************************************************)
(* State.                                                                  *)
(***************************************************************************)
VARIABLES
  \* LiveTWAPExecutor fields
  privateKey, isExecuting, shouldStop, executionState, orderResults,
  \* the running execute() call: where it is suspended, and its locals
  pc, i, config, candles, assetDecimals, vwapData, baseOrderSize, order,
  \* what the caller and the venue have observed
  runs, rejected, placed, delays, stopPoint, calls,
  \* RiskManager fields, and the return value of its last checkRiskLimits
  limits, riskSide, startPrice, isHalted, alerts, lastCheck, criticalPending,
  \* what getActiveAlerts returned, when it was the last call on the RiskManager
  activeAlerts,
  \* a VWAP state and the last call made on it; the last calculateVWAPOrderSize call
  tracker, trackerCall, trackerClean, absorbs, sizing,
  \* the last price formatted and validated
  formatting,
  \* the last call of the order-book analysis
  analysis,
  \* the simulateVWAPEnhancedTWAP call: where it is suspended, and its locals
  simulation

executorVars == <<privateKey, isExecuting, shouldStop, executionState, orderResults,
                  pc, i, config, candles, assetDecimals, vwapData, baseOrderSize, order,
                  runs, rejected, placed, delays, stopPoint, calls>>
riskVars == <<limits, riskSide, startPrice, isHalted, alerts, lastCheck, criticalPending,
              activeAlerts>>
functionVars == <<tracker, trackerCall, trackerClean, absorbs, sizing, formatting, analysis,
                  simulation>>
vars == <<executorVars, riskVars, functionVars>>

(***************************************************************************)
(* Inputs.                                                                 *)
(***************************************************************************)
Half == [n |-> 1, d |-> 2]
Two == [n |-> 2, d |-> 1]

ValidConfigs ==
  { [asset |-> "ETH", side |-> "buy", totalSize |-> 10, totalOrders |-> 3,
     vwapAlpha |-> Half, maxMultiplier |-> Two, minMultiplier |-> Half],
    [asset |-> "ETH", side |-> "sell", totalSize |-> 1, totalOrders |-> 2,
     vwapAlpha |-> Half, maxMultiplier |-> Two, minMultiplier |-> Half] }

InvalidConfigs ==
  { [asset |-> "", side |-> "buy", totalSize |-> 10, totalOrders |-> 2,
     vwapAlpha |-> Half, maxMultiplier |-> Two, minMultiplier |-> Half],
    [asset |-> "ETH", side |-> "buy", totalSize |-> 0, totalOrders |-> 2,
     vwapAlpha |-> Half, maxMultiplier |-> Two, minMultiplier |-> Half],
    [asset |-> "ETH", side |-> "sell", totalSize |-> 1, totalOrders |-> 0,
     vwapAlpha |-> Half, maxMultiplier |-> Two, minMultiplier |-> Half] }

\* configurations validateConfiguration lets through although their sizing
\* parameters are not sane: minMultiplier above maxMultiplier
UnsoundSizingConfigs ==
  { [asset |-> "ETH", side |-> "sell", totalSize |-> 1, totalOrders |-> 2,
     vwapAlpha |-> Half, maxMultiplier |-> Half, minMultiplier |-> Two] }

Configs == ValidConfigs \cup InvalidConfigs \cup UnsoundSizingConfigs

\* historical bars, prices in dollars
CandleSeqs ==
  { <<>>,
    << [high |-> 12, low |-> 10, close |-> 11, volume |-> 2],
       [high |-> 9, low |-> 9, close |-> 9, volume |-> 1] >>,
    << NullCandle >> }

PrivateKeys == {"0x32bytes", "0xshort"}

\* instrument metadata as getMarketInfo returns it; szDecimals -1: the field is absent
Absent == 0 - 1
MarketInfos ==
  { [found |-> FALSE, szDecimals |-> Absent] }
    \cup { [found |-> TRUE, szDecimals |-> d] : d \in {Absent, 0, 7} }

\* order-book snapshots as fetchOrderBook returns them (available = FALSE: null);
\* px in milli-dollars, sz in tokens
Level(px, sz) == [px |-> px, sz |-> sz]
Books ==
  { [available |-> FALSE, bids |-> <<>>, asks |-> <<>>],
    [available |-> TRUE, bids |-> <<Level(9990, 50)>>,
                         asks |-> <<Level(10000, 5), Level(10500, 5)>>],
    [available |-> TRUE, bids |-> <<Level(100000, 30)>>,
                         asks |-> <<Level(100005, 30)>>],
    [available |-> TRUE, bids |-> <<Level(9990, 5)>>, asks |-> <<>>] }

(***************************************************************************)
(* LiveTWAPExecutor.                                                       *)
(***************************************************************************)
NoOrder == [orderNumber |-> 0, size |-> 0, price |-> 0]
\* stopPoint: where the run was when stop() first reached it, and whether a
\* stop() reached an earlier run of this executor
NoStop == [called |-> FALSE, pc |-> "idle", results |-> 0, placed |-> 0, delays |-> 0,
           earlier |-> FALSE]
\* calls: how often each callback was called in the current run, and the
\* results onOrderPlaced was called with
NoCalls == [onOrderPlaced |-> 0, onProgress |-> 0, onComplete |-> 0, onError |-> 0,
            delivered |-> <<>>]

InitialExecutionState ==
  [status |-> "pending", currentOrder |-> 0, totalOrders |-> 0,
   successfulOrders |-> 0, failedOrders |-> 0, totalExecuted |-> 0]

ExecutorInit ==
  /\ privateKey \in PrivateKeys
  /\ isExecuting = FALSE
  /\ shouldStop = FALSE
  /\ executionState = InitialExecutionState
  /\ orderResults = <<>>
  /\ pc = "idle"
  /\ i = 0
  /\ config = CHOOSE c \in InvalidConfigs : c.asset = ""
  /\ candles = <<>>
  /\ assetDecimals = 0
  /\ vwapData = initializeVWAP(<<>>)
  /\ baseOrderSize = Rat(0, 1)
  /\ order = NoOrder
  /\ runs = 0
  /\ rejected = FALSE
  /\ placed = <<>>
  /\ delays = 0
  /\ stopPoint = NoStop
  /\ calls = NoCalls

\* ethers.isHexString(this.privateKey, 32)
isHexString32(key) == key = "0x32bytes"

\* mutant: the key is not checked
validateConfiguration_NoKeyCheck(c, key) ==
  ~(c.asset = "" \/ c.totalSize <= 0 \/ c.totalOrders <= 0)

\* validateConfiguration returns normally
validateConfiguration(c, key) ==
  /\ ~(c.asset = "" \/ c.totalSize <= 0 \/ c.totalOrders <= 0)
  /\ isHexString32(key)

\* mutant: the guard is missing
AlreadyInProgress_Never == FALSE

\* execute(): the guard of its first statement
AlreadyInProgress == isExecuting

\* execute() throws "TWAP execution already in progress"
ExecuteRejects ==
  /\ rejected' = TRUE
  /\ UNCHANGED <<privateKey, isExecuting, shouldStop, executionState, orderResults,
                 pc, i, config, candles, assetDecimals, vwapData, baseOrderSize, order,
                 runs, placed, delays, stopPoint, calls>>

\* mutant: the cancellation flag of the previous run is kept
ExecuteStarts_KeepsStopFlag(c, cs) ==
  /\ isExecuting' = TRUE
  /\ shouldStop' = shouldStop
  /\ orderResults' = <<>>
  /\ executionState' = [executionState EXCEPT
                          !.status = "executing", !.totalOrders = c.totalOrders,
                          !.currentOrder = 0, !.successfulOrders = 0,
                          !.failedOrders = 0, !.totalExecuted = 0]
  /\ config' = c
  /\ candles' = cs
  /\ pc' = "validateConfiguration"
  /\ i' = 0
  /\ assetDecimals' = 0
  /\ vwapData' = initializeVWAP(<<>>)
  /\ baseOrderSize' = Rat(0, 1)
  /\ order' = NoOrder
  /\ runs' = runs + 1
  /\ rejected' = FALSE
  /\ placed' = <<>>
  /\ delays' = 0
  /\ stopPoint' = [NoStop EXCEPT !.earlier = stopPoint.called \/ stopPoint.earlier]
  /\ calls' = NoCalls
  /\ UNCHANGED privateKey

\* execute() up to its first await (validateConfiguration has run)
ExecuteStarts(c, cs) ==
  /\ isExecuting' = TRUE
  /\ shouldStop' = FALSE
  /\ orderResults' = <<>>
  /\ executionState' = [executionState EXCEPT
                          !.status = "executing", !.totalOrders = c.totalOrders,
                          !.currentOrder = 0, !.successfulOrders = 0,
                          !.failedOrders = 0, !.totalExecuted = 0]
  /\ config' = c
  /\ candles' = cs
  /\ pc' = "validateConfiguration"
  /\ i' = 0
  /\ assetDecimals' = 0
  /\ vwapData' = initializeVWAP(<<>>)
  /\ baseOrderSize' = Rat(0, 1)
  /\ order' = NoOrder
  /\ runs' = runs + 1
  /\ rejected' = FALSE
  /\ placed' = <<>>
  /\ delays' = 0
  /\ stopPoint' = [NoStop EXCEPT !.earlier = stopPoint.called \/ stopPoint.earlier]
  /\ calls' = NoCalls
  /\ UNCHANGED privateKey

Execute(c, cs) ==
  /\ \/ AlreadyInProgress /\ ExecuteRejects
     \/ ~AlreadyInProgress /\ runs < MaxRuns /\ ExecuteStarts(c, cs)
  /\ UNCHANGED <<riskVars, functionVars>>

\* the outer catch of execute(): status 'failed', onError
RunFails ==
  /\ executionState' = [executionState EXCEPT !.status = "failed"]
  /\ calls' = [calls EXCEPT !.onError = @ + 1]
  /\ pc' = "onError"
  /\ UNCHANGED i

\* the status a run that left its loop ends with
FinalStatus == IF shouldStop THEN "cancelled" ELSE "completed"

\* mutant: the loop does not look at the cancellation flag
LoopCondition_IgnoresStop(n) == n < config.totalOrders

\* the head of the for loop with loop variable n, the executor's state being es:
\* either the next executeOrder is started (it awaits fetchOrderBook), or the
\* loop is left, the summary is built and onComplete is called
LoopCondition(n) == n < config.totalOrders /\ ~shouldStop

EnterIteration(n, es, cl) ==
  /\ i' = n
  /\ IF LoopCondition(n)
       THEN /\ executionState' = [es EXCEPT !.currentOrder = n + 1]
            /\ pc' = "fetchOrderBook"
            /\ calls' = cl
       ELSE /\ executionState' = [es EXCEPT !.status = FinalStatus]
            /\ pc' = "onComplete"
            /\ calls' = [cl EXCEPT !.onComplete = @ + 1]

\* await validateConfiguration(config) resumes
ValidateReturns ==
  /\ pc = "validateConfiguration"
  /\ IF validateConfiguration(config, privateKey)
       THEN pc' = "getMarketInfo" /\ UNCHANGED <<executionState, calls, i>>
       ELSE RunFails
  /\ UNCHANGED <<privateKey, isExecuting, shouldStop, orderResults, config, candles,
                 assetDecimals, vwapData, baseOrderSize, order,
                 runs, rejected, placed, delays, stopPoint>>
  /\ UNCHANGED <<riskVars, functionVars>>

\* await getMarketInfo resumes: getMarketInformation, initializeVWAP, the base
\* order size, and the first loop head; a throw of either of the first two goes
\* to the outer catch
MarketInfoReturns(mi) ==
  /\ pc = "getMarketInfo"
  /\ IF mi.found /\ ~initializeVWAPThrows(candles)
       THEN /\ assetDecimals' = IF mi.szDecimals = Absent THEN DefaultAssetDecimals
                                ELSE mi.szDecimals
            /\ vwapData' = initializeVWAP(candles)
            /\ baseOrderSize' = Rat(config.totalSize, config.totalOrders)
            /\ EnterIteration(0, executionState, calls)
       ELSE /\ RunFails
            /\ UNCHANGED <<assetDecimals, vwapData, baseOrderSize>>
  /\ UNCHANGED <<privateKey, isExecuting, shouldStop, orderResults, config, candles,
                 order, runs, rejected, placed, delays, stopPoint>>
  /\ UNCHANGED <<riskVars, functionVars>>

\* getCurrentMarketPrice: the best price of the side the order takes, in
\* milli-dollars; 0 - 1 when it throws
getCurrentMarketPrice(book, side) ==
  IF ~book.available THEN 0 - 1
  ELSE IF side = "buy" /\ book.asks # <<>> THEN book.asks[1].px
  ELSE IF side = "sell" /\ book.bids # <<>> THEN book.bids[1].px
  ELSE 0 - 1

\* executeOrder: the limit price in micro-dollars, before formatting
constrainedPrice(currentMarketPrice, side) ==
  LET orderPrice == IF side = "buy" THEN currentMarketPrice * (1000 + slippageBuffer)
                    ELSE currentMarketPrice * (1000 - slippageBuffer)
      minAllowedPrice == currentMarketPrice * (1000 - maxPriceDeviation)
      maxAllowedPrice == currentMarketPrice * (1000 + maxPriceDeviation)
      smaller == IF maxAllowedPrice < orderPrice THEN maxAllowedPrice ELSE orderPrice
  IN  IF minAllowedPrice > smaller THEN minAllowedPrice ELSE smaller

\* handleOrderError up to its onOrderPlaced callback, cl being the callbacks
\* called before it
handleOrderErrorAfter(reason, cl) ==
  /\ executionState' = [executionState EXCEPT !.failedOrders = @ + 1]
  /\ orderResults' = Append(orderResults,
       [orderNumber |-> i + 1, success |-> FALSE, size |-> 0, price |-> 0,
        error |-> reason])
  /\ calls' = [cl EXCEPT !.onOrderPlaced = @ + 1,
                         !.delivered = Append(@, orderResults'[Len(orderResults')])]
  /\ pc' = "onOrderError"

\* mutant: the inner catch rethrows to the outer one
handleOrderError_Rethrows(reason) ==
  /\ executionState' = [executionState EXCEPT !.status = "failed"]
  /\ calls' = [calls EXCEPT !.onError = @ + 1]
  /\ pc' = "onError"
  /\ orderResults' = orderResults

handleOrderError(reason) == handleOrderErrorAfter(reason, calls)

\* mutant: the constrained price is submitted as it is, neither formatted nor
\* validated
FetchReturns_SubmitsRawPrice(book) ==
  /\ pc = "fetchOrderBook"
  /\ LET currentMarketPrice == getCurrentMarketPrice(book, config.side)
         vwapOrderSize == calculateVWAPOrderSize(baseOrderSize,
                            Rat(currentMarketPrice, 1000), vwapData.vwap,
                            config.vwapAlpha, config.maxMultiplier, config.minMultiplier)
         roundedSize == roundOrderSizeForAsset(vwapOrderSize.adjustedSize, assetDecimals)
     IN  IF currentMarketPrice < 0
           THEN handleOrderError("orderbook") /\ UNCHANGED <<order, placed>>
         ELSE /\ order' = [orderNumber |-> i + 1, size |-> roundedSize,
                           price |-> constrainedPrice(currentMarketPrice, config.side)]
              /\ placed' = Append(placed, order')
              /\ pc' = "placeOrder"
              /\ UNCHANGED <<executionState, orderResults, calls>>
  /\ UNCHANGED <<privateKey, isExecuting, shouldStop, i, config, candles,
                 assetDecimals, vwapData, baseOrderSize,
                 runs, rejected, delays, stopPoint>>
  /\ UNCHANGED <<riskVars, functionVars>>

\* await fetchOrderBook resumes inside executeOrder: price, size, limit price,
\* formatting and validation, then placeOrder is called
FetchReturns(book) ==
  /\ pc = "fetchOrderBook"
  /\ LET currentMarketPrice == getCurrentMarketPrice(book, config.side)
         vwapOrderSize == calculateVWAPOrderSize(baseOrderSize,
                            Rat(currentMarketPrice, 1000), vwapData.vwap,
                            config.vwapAlpha, config.maxMultiplier, config.minMultiplier)
         roundedSize == roundOrderSizeForAsset(vwapOrderSize.adjustedSize, assetDecimals)
         formattedPrice == formatHyperliquidPrice(
                             constrainedPrice(currentMarketPrice, config.side),
                             assetDecimals, FALSE)
     IN  IF currentMarketPrice < 0
           THEN handleOrderError("orderbook") /\ UNCHANGED <<order, placed>>
         ELSE IF formattedPrice.threw
           THEN handleOrderError("toFixed") /\ UNCHANGED <<order, placed>>
         ELSE IF ~validateHyperliquidPrice(formattedPrice.px, assetDecimals, FALSE)
           THEN handleOrderError("Invalid price format") /\ UNCHANGED <<order, placed>>
         ELSE /\ order' = [orderNumber |-> i + 1, size |-> roundedSize,
                           price |-> formattedPrice.px]
              /\ placed' = Append(placed, order')
              /\ pc' = "placeOrder"
              /\ UNCHANGED <<executionState, orderResults, calls>>
  /\ UNCHANGED <<privateKey, isExecuting, shouldStop, i, config, candles,
                 assetDecimals, vwapData, baseOrderSize,
                 runs, rejected, delays, stopPoint>>
  /\ UNCHANGED <<riskVars, functionVars>>

\* what placeOrder can come back with: the order was taken ("filled"), the venue
\* answered with an error status ("rejected"), or building the wallet or
\* signing/sending the request threw ("credential")
PlaceOrderOutcomes == {"filled", "rejected", "credential"}

\* mutant: the submission is not awaited, the loop goes on without its result
PlaceOrderReturns_NotAwaited(outcome) ==
  /\ pc = "placeOrder"
  /\ pc' = "onOrderPlaced"
  /\ UNCHANGED <<privateKey, isExecuting, shouldStop, executionState, orderResults,
                 i, config, candles, assetDecimals, vwapData, baseOrderSize, order,
                 runs, rejected, placed, delays, stopPoint, calls>>
  /\ UNCHANGED <<riskVars, functionVars>>

\* await placeOrder resumes: the result is recorded and counted, then
\* onOrderPlaced and onProgress are called.  placeOrder builds the wallet from
\* the key and catches every error, so it never throws.
PlaceOrderReturns(outcome) ==
  /\ pc = "placeOrder"
  /\ LET walletBuilt == isHexString32(privateKey)
         success == walletBuilt /\ outcome = "filled"
         error == IF success THEN ""
                  ELSE IF walletBuilt /\ outcome = "rejected" THEN "rejected"
                  ELSE "Order placement failed"
     IN  /\ orderResults' = Append(orderResults,
              [orderNumber |-> order.orderNumber, success |-> success,
               size |-> order.size, price |-> order.price, error |-> error])
         /\ executionState' =
              IF success
                THEN [executionState EXCEPT !.successfulOrders = @ + 1,
                                            !.totalExecuted = @ + order.size]
                ELSE [executionState EXCEPT !.failedOrders = @ + 1]
  /\ calls' = [calls EXCEPT !.onOrderPlaced = @ + 1, !.onProgress = @ + 1,
                            !.delivered = Append(@, orderResults'[Len(orderResults')])]
  /\ pc' = "onOrderPlaced"
  /\ UNCHANGED <<privateKey, isExecuting, shouldStop, i, config, candles,
                 assetDecimals, vwapData, baseOrderSize, order,
                 runs, rejected, placed, delays, stopPoint>>
  /\ UNCHANGED <<riskVars, functionVars>>

\* mutant: the sleep does not look at the cancellation flag
WaitsForNextOrder_IgnoresStop == i < config.totalOrders - 1

\* the guard of the inter-slice sleep
WaitsForNextOrder == i < config.totalOrders - 1 /\ ~shouldStop

\* onOrderPlaced and onProgress have returned: sleep, or go on to the loop head
AfterOrderPlaced ==
  /\ pc = "onOrderPlaced"
  /\ IF WaitsForNextOrder
       THEN /\ pc' = "delay"
            /\ delays' = delays + 1
            /\ UNCHANGED <<i, executionState, calls>>
       ELSE /\ EnterIteration(i + 1, executionState, calls)
            /\ UNCHANGED delays
  /\ UNCHANGED <<privateKey, isExecuting, shouldStop, orderResults, config, candles,
                 assetDecimals, vwapData, baseOrderSize, order,
                 runs, rejected, placed, stopPoint>>
  /\ UNCHANGED <<riskVars, functionVars>>

\* handleOrderError has returned: the catch block ends and the loop goes on
AfterOrderError ==
  /\ pc = "onOrderError"
  /\ EnterIteration(i + 1, executionState, calls)
  /\ UNCHANGED <<privateKey, isExecuting, shouldStop, orderResults, config, candles,
                 assetDecimals, vwapData, baseOrderSize, order,
                 runs, rejected, placed, delays, stopPoint>>
  /\ UNCHANGED <<riskVars, functionVars>>

\* the timer of delay() fires
DelayElapsed ==
  /\ pc = "delay"
  /\ EnterIteration(i + 1, executionState, calls)
  /\ UNCHANGED <<privateKey, isExecuting, shouldStop, orderResults, config, candles,
                 assetDecimals, vwapData, baseOrderSize, order,
                 runs, rejected, placed, delays, stopPoint>>
  /\ UNCHANGED <<riskVars, functionVars>>

\* onComplete or onError has returned: the finally block, and execute() settles
Settle ==
  /\ pc \in {"onComplete", "onError"}
  /\ isExecuting' = FALSE
  /\ pc' = "idle"
  /\ UNCHANGED <<privateKey, shouldStop, executionState, orderResults, i, config,
                 candles, assetDecimals, vwapData, baseOrderSize, order,
                 runs, rejected, placed, delays, stopPoint, calls>>
  /\ UNCHANGED <<riskVars, functionVars>>

\* stop(), called by the user or from inside a callback
Stop ==
  /\ IF isExecuting
       THEN /\ shouldStop' = TRUE
            /\ stopPoint' = IF stopPoint.called THEN stopPoint
                            ELSE [called |-> TRUE, pc |-> pc,
                                  results |-> Len(orderResults),
                                  placed |-> Len(placed), delays |-> delays,
                                  earlier |-> stopPoint.earlier]
       ELSE UNCHANGED <<shouldStop, stopPoint>>
  /\ UNCHANGED <<privateKey, isExecuting, executionState, orderResults, pc, i, config,
                 candles, assetDecimals, vwapData, baseOrderSize, order,
                 runs, rejected, placed, delays, calls>>
  /\ UNCHANGED <<riskVars, functionVars>>

(***************************************************************************)
(* RiskManager.  A metric is a ratio [n, d]; d = 0 is NaN, which compares  *)
(* false with everything.                                                  *)
(***************************************************************************)
\* a > b on numbers that may be NaN
Exceeds(a, b) == a.d # 0 /\ b.d # 0 /\ RatLT(b, a)
RatAbs(a) == [n |-> Abs(a.n), d |-> a.d]

\* the three predefined risk profiles
ConservativeRiskLimits ==
  [maxPriceDeviation |-> Rat(2, 1), maxVolumeRatio |-> Rat(1, 100),
   maxSlippage |-> Rat(5, 1000), minSpread |-> Rat(1, 10000),
   maxOrderValue |-> Rat(10000, 1), maxTotalExposure |-> Rat(100000, 1)]
AggressiveRiskLimits ==
  [maxPriceDeviation |-> Rat(5, 1), maxVolumeRatio |-> Rat(5, 100),
   maxSlippage |-> Rat(2, 100), minSpread |-> Rat(5, 100000),
   maxOrderValue |-> Rat(50000, 1), maxTotalExposure |-> Rat(500000, 1)]
DefaultRiskLimits ==
  [maxPriceDeviation |-> Rat(3, 1), maxVolumeRatio |-> Rat(2, 100),
   maxSlippage |-> Rat(1, 100), minSpread |-> Rat(8, 100000),
   maxOrderValue |-> Rat(25000, 1), maxTotalExposure |-> Rat(250000, 1)]
RiskProfiles == {DefaultRiskLimits, AggressiveRiskLimits}

\* calculateRiskMetrics: "Default fallback"
marketVolume24h == 1000000

\* the levels taken in the order given: [cost, remaining] after filling
RECURSIVE TakeLevels(_, _, _)
TakeLevels(levels, remainingSize, totalCost) ==
  IF levels = <<>> THEN [totalCost |-> totalCost, remainingSize |-> remainingSize]
  ELSE LET sizeToTake == IF remainingSize < Head(levels).sz THEN remainingSize
                         ELSE Head(levels).sz
           cost == totalCost + sizeToTake * Head(levels).px
       IN  IF remainingSize - sizeToTake <= 0
             THEN [totalCost |-> cost, remainingSize |-> remainingSize - sizeToTake]
             ELSE TakeLevels(Tail(levels), remainingSize - sizeToTake, cost)

\* RiskManager.estimateSlippage, as a fraction
estimateSlippage(orderSize, orderbook, side) ==
  LET levels == IF side = "buy" THEN orderbook.asks ELSE orderbook.bids
      firstPrice == levels[1].px
      taken == TakeLevels(levels, orderSize, 0)
  IN  IF ~orderbook.available THEN Rat(0, 1)
      ELSE IF levels = <<>> THEN RatOne
      ELSE IF taken.remainingSize > 0 THEN RatOne
      ELSE IF orderSize = 0 THEN NaN                   \* 0 / 0
      ELSE Rat(Abs(taken.totalCost - firstPrice * orderSize), firstPrice * orderSize)

calculateRiskMetrics(orderSize, currentPrice, executedVolume, orderbook, side, start) ==
  LET both == orderbook.available /\ orderbook.bids # <<>> /\ orderbook.asks # <<>>
      bestBid == orderbook.bids[1].px
      bestAsk == orderbook.asks[1].px
  IN  [priceDeviation |-> IF start > 0 THEN Rat(100 * (currentPrice - start), start)
                          ELSE Rat(0, 1),
       currentSpread |-> IF both THEN Rat(bestAsk - bestBid, bestBid) ELSE Rat(0, 1),
       orderSizeRatio |-> Rat(orderSize * 1440, marketVolume24h),
       estimatedSlippage |-> IF both THEN estimateSlippage(orderSize, orderbook, side)
                             ELSE Rat(0, 1),
       totalExposure |-> Rat(executedVolume * currentPrice, 1000)]

\* mutant: a slippage breach is only a warning
AlertType_SlippageWarning(metric) ==
  IF metric \in {"priceDeviation", "totalExposure"} THEN "critical" ELSE "warning"

\* mutant: a spread breach is critical
AlertType_SpreadCritical(metric) ==
  IF metric = "orderSizeRatio" THEN "warning" ELSE "critical"

\* the type checkRiskLimits gives an alert on each metric
AlertType(metric) ==
  CASE metric = "priceDeviation" -> "critical"
    [] metric = "currentSpread" -> "warning"
    [] metric = "orderSizeRatio" -> "warning"
    [] metric = "estimatedSlippage" -> "critical"
    [] metric = "totalExposure" -> "critical"

Alert(metric) == [type |-> AlertType(metric), metric |-> metric]

\* the five limit checks of checkRiskLimits, in order: the alerts of this call
NewAlerts(metrics, lim) ==
  (IF Exceeds(RatAbs(metrics.priceDeviation), lim.maxPriceDeviation)
     THEN <<Alert("priceDeviation")>> ELSE <<>>)
  \o (IF Exceeds(lim.minSpread, metrics.currentSpread)
        THEN <<Alert("currentSpread")>> ELSE <<>>)
  \o (IF Exceeds(metrics.orderSizeRatio, lim.maxVolumeRatio)
        THEN <<Alert("orderSizeRatio")>> ELSE <<>>)
  \o (IF Exceeds(metrics.estimatedSlippage, lim.maxSlippage)
        THEN <<Alert("estimatedSlippage")>> ELSE <<>>)
  \o (IF Exceeds(metrics.totalExposure, lim.maxTotalExposure)
        THEN <<Alert("totalExposure")>> ELSE <<>>)

CriticalAlerts(as) == SelectSeq(as, LAMBDA a : a.type = "critical")

\* mutant: the halted flag is not consulted
CanProceed_IgnoresHalt(criticalAlerts, halted) == Len(criticalAlerts) = 0

\* checkRiskLimits: "Determine if we can proceed"
CanProceed(criticalAlerts, halted) == Len(criticalAlerts) = 0 /\ ~halted

NoCheck ==
  [called |-> FALSE, orderSize |-> 0, currentPrice |-> 0, executedVolume |-> 0,
   book |-> CHOOSE b \in Books : ~b.available,
   wasHalted |-> FALSE, canProceed |-> FALSE, alerts |-> <<>>]

RiskInit ==
  /\ limits \in RiskProfiles
  /\ riskSide \in {"buy", "sell"}
  /\ startPrice = 0
  /\ isHalted = FALSE
  /\ alerts = <<>>
  /\ lastCheck = NoCheck
  /\ criticalPending = FALSE
  /\ activeAlerts = <<>>

initialize(price) ==
  /\ startPrice' = price
  /\ isHalted' = FALSE
  /\ alerts' = <<>>
  /\ criticalPending' = FALSE
  /\ activeAlerts' = <<>>
  /\ UNCHANGED <<limits, riskSide, lastCheck>>
  /\ UNCHANGED <<executorVars, functionVars>>

checkRiskLimits(orderSize, currentPrice, executedVolume, book) ==
  /\ Len(alerts) < MaxAlertLog
  /\ \E metrics \in {calculateRiskMetrics(orderSize, currentPrice, executedVolume,
                                          book, riskSide, startPrice)} :
     \E newAlerts \in {NewAlerts(metrics, limits)} :
     \E criticalAlerts \in {CriticalAlerts(newAlerts)} :
         /\ alerts' = alerts \o newAlerts
         /\ isHalted' = IF Len(criticalAlerts) > 0 THEN TRUE ELSE isHalted
         /\ lastCheck' = [called |-> TRUE, orderSize |-> orderSize,
                          currentPrice |-> currentPrice,
                          executedVolume |-> executedVolume, book |-> book,
                          wasHalted |-> isHalted,
                          canProceed |-> CanProceed(criticalAlerts, isHalted),
                          alerts |-> newAlerts]
         /\ criticalPending' =
              (criticalPending \/ \E k \in 1..Len(newAlerts) : newAlerts[k].type = "critical")
  /\ activeAlerts' = <<>>
  /\ UNCHANGED <<limits, riskSide, startPrice>>
  /\ UNCHANGED <<executorVars, functionVars>>

\* the alerts younger than five minutes: the log is in time order, so they
\* are its last k elements, k depending on the clock
getActiveAlerts ==
  /\ \E k \in 0 .. Len(alerts) :
       activeAlerts' = SubSeq(alerts, Len(alerts) - k + 1, Len(alerts))
  /\ UNCHANGED <<limits, riskSide, startPrice, isHalted, alerts, lastCheck, criticalPending>>
  /\ UNCHANGED <<executorVars, functionVars>>

resumeExecution ==
  /\ isHalted' = FALSE
  /\ criticalPending' = FALSE
  /\ activeAlerts' = <<>>
  /\ UNCHANGED <<limits, riskSide, startPrice, alerts, lastCheck>>
  /\ UNCHANGED <<executorVars, functionVars>>

\* mutant: clearing the log also clears the halt
clearAlerts_AlsoResumes ==
  /\ alerts' = <<>>
  /\ isHalted' = FALSE
  /\ activeAlerts' = <<>>
  /\ UNCHANGED <<limits, riskSide, startPrice, lastCheck, criticalPending>>
  /\ UNCHANGED <<executorVars, functionVars>>

clearAlerts ==
  /\ alerts' = <<>>
  /\ activeAlerts' = <<>>
  /\ UNCHANGED <<limits, riskSide, startPrice, isHalted, lastCheck, criticalPending>>
  /\ UNCHANGED <<executorVars, functionVars>>

(***************************************************************************)
(* The VWAP state (initializeVWAP, resetVWAP, updateVWAP) and the sizer     *)
(* (calculateVWAPOrderSize) called on their own.  Prices in dollars.       *)
(***************************************************************************)
\* bars: three valid ones, one with volume 0, one with a negative volume, and null
Bars ==
  { [high |-> 12, low |-> 10, close |-> 11, volume |-> 2],
    [high |-> 9, low |-> 9, close |-> 9, volume |-> 1],
    [high |-> 10, low |-> 10, close |-> 11, volume |-> 3],
    [high |-> 10, low |-> 10, close |-> 10, volume |-> 0],
    [high |-> 10, low |-> 10, close |-> 10, volume |-> 0 - 1],
    NullCandle }

BarSeqs == {<<>>} \cup {<<b>> : b \in Bars} \cup {<<a, b>> : a \in Bars, b \in Bars}

ZeroVWAP == [vwap |-> Rat(0, 1), cumulativePV |-> Rat(0, 1), cumulativeVolume |-> 0]
NoTrackerCall == [op |-> "none", threw |-> FALSE, bars |-> <<>>, before |-> ZeroVWAP]

SizerBaseSizes == {Rat(0, 1), Half, Rat(5, 1), Rat(10, 1), PosInf}
SizerPrices == {Rat(5, 1), Rat(10, 1), Rat(20, 1), Rat(98, 1), PosInf, NaN}
SizerVwaps == {Rat(0, 1), Rat(5, 1), Rat(10, 1), Rat(40, 1), Rat(100, 1), PosInf, NaN}
SizerAlphas == {Half, RatOne}
\* <<minMultiplier, maxMultiplier>>
SizerBounds == {<<Half, Two>>, <<Two, Rat(3, 1)>>}

NoSizing ==
  [called |-> FALSE, baseSize |-> Rat(0, 1), currentPrice |-> Rat(0, 1),
   vwap |-> Rat(0, 1), alpha |-> Rat(0, 1), maxMultiplier |-> Rat(0, 1),
   minMultiplier |-> Rat(0, 1),
   out |-> [adjustedSize |-> Rat(0, 1), multiplier |-> Rat(0, 1)]]

\* prices in units of 10^-maxDecimals dollars
FormatPrices == {1, 15, 999995, 1234567, 1500000, 10000500, 99999500, 100000000,
                 123456789, 1234567890, 2000000001}
\* the whole part of prices of ten digits
TenDigitPrices == {1000000000, 1073800000, 1457300000, 2000000049}
SzDecimals == 0 .. 8
NoFormatting == [called |-> FALSE, tenDigits |-> FALSE, price |-> 0, szDecimals |-> 0,
                 isSpot |-> FALSE, threw |-> FALSE, valid |-> FALSE]

\* order books for the analysis: the levels also out of price order
DepthBooks ==
  { [available |-> TRUE, bids |-> <<Level(9990, 50)>>,
                         asks |-> <<Level(10000, 5), Level(10500, 5)>>],
    [available |-> TRUE, bids |-> <<Level(9500, 5), Level(9990, 5)>>,
                         asks |-> <<Level(10500, 5), Level(10000, 5)>>],
    [available |-> TRUE, bids |-> <<Level(100000, 30)>>,
                         asks |-> <<Level(100005, 30)>>],
    [available |-> TRUE, bids |-> <<Level(9990, 5)>>, asks |-> <<>>],
    [available |-> TRUE, bids |-> <<>>, asks |-> <<Level(10000, 5), Level(10500, 5)>>],
    [available |-> TRUE, bids |-> <<>>, asks |-> <<>>] }
DepthSizes == {0, 1, 3, 8, 10, 11, 40}
MaxSlippagePercents == {Rat(1, 1), Rat(2, 1)}
MaxVolumePercents == {Rat(10, 1), Rat(100, 1), Rat(200, 1)}
NoSlippageInfo == [estimatedPrice |-> Rat(0, 1), slippagePercent |-> Rat(0, 1),
                   depth |-> 0, wouldExecute |-> FALSE]
NoConstraint == [canHandle |-> FALSE, suggested |-> FALSE, suggestedMaxVolume |-> Rat(0, 1)]
NoAnalysis ==
  [op |-> "none", orderBook |-> [available |-> TRUE, bids |-> <<>>, asks |-> <<>>],
   size |-> 0, isBuy |-> FALSE, maxSlippagePercent |-> Rat(0, 1),
   maxVolumePercent |-> Rat(0, 1), slippageInfo |-> NoSlippageInfo,
   constraint |-> NoConstraint]

\* inputs of simulateVWAPEnhancedTWAP: configurations, market data (prices in
\* dollars), instrument metadata, and the order-book snapshots the slippage
\* protection fetches (px in dollars, sz in 10^-4 token)
SimulationConfigs ==
  { [asset |-> "ETH", side |-> "buy", totalSize |-> size, totalOrders |-> 2,
     maxSlippagePercent |-> Rat(1, 1), vwapAlpha |-> Half, maxMultiplier |-> Two,
     minMultiplier |-> Half, vwapPeriod |-> 1] : size \in {5, 10} }
MarketDataSeqs ==
  { <<>>,
    << NullCandle >>,
    << [high |-> 10, low |-> 10, close |-> 10, volume |-> 1], NullCandle >>,
    << [high |-> 10, low |-> 10, close |-> 10, volume |-> 1],
       [high |-> 10, low |-> 10, close |-> 10, volume |-> 1] >>,
    << [high |-> 10, low |-> 10, close |-> 10, volume |-> 1],
       [high |-> 12, low |-> 10, close |-> 8, volume |-> 1] >> }
SimulationMarketInfos ==
  { [found |-> FALSE, szDecimals |-> Absent] }
    \cup { [found |-> TRUE, szDecimals |-> d] : d \in {Absent, 0, 2} }
BookUnit == Pow10(4)
SimulationBooks ==
  { [available |-> FALSE, bids |-> <<>>, asks |-> <<>>],
    [available |-> TRUE, bids |-> <<Level(10, 500 * BookUnit)>>,
                         asks |-> <<Level(10, 500 * BookUnit)>>],
    [available |-> TRUE, bids |-> <<Level(10, 20 * BookUnit)>>,
                         asks |-> <<Level(10, 20 * BookUnit)>>],
    [available |-> TRUE, bids |-> <<Level(10, 20 * BookUnit)>>, asks |-> <<>>] }
NoSimulation ==
  [pc |-> "idle", config |-> CHOOSE c \in SimulationConfigs : c.totalSize = 10,
   marketData |-> <<>>, metadata |-> [found |-> FALSE, szDecimals |-> Absent],
   assetDecimals |-> SimulationDefaultDecimals, currentVWAPData |-> ZeroVWAP,
   results |-> <<>>, remainingShares |-> Rat(0, 1), remainingOrders |-> 0,
   accumulatedRemainder |-> Rat(0, 1), i |-> 0, requestedSize |-> 0]

\* no VWAP state in use, the sizer, the formatter, the analysis and the
\* simulation not called
FunctionsIdle ==
  /\ tracker = ZeroVWAP
  /\ trackerCall = NoTrackerCall
  /\ trackerClean = TRUE
  /\ absorbs = 0
  /\ sizing = NoSizing
  /\ formatting = NoFormatting
  /\ analysis = NoAnalysis
  /\ simulation = NoSimulation

\* vwapData = initializeVWAP(cs); a throw leaves vwapData as it was
TrackerInitialize(cs) ==
  /\ trackerCall' = [op |-> "initializeVWAP", threw |-> initializeVWAPThrows(cs),
                     bars |-> cs, before |-> tracker]
  /\ IF initializeVWAPThrows(cs)
       THEN UNCHANGED <<tracker, trackerClean, absorbs>>
       ELSE /\ tracker' = initializeVWAP(cs)
            /\ trackerClean' = \A k \in 1..Len(cs) : ValidCandle(cs[k])
            /\ absorbs' = 0
  /\ UNCHANGED <<sizing, formatting, analysis,
                 simulation, executorVars, riskVars>>

\* vwapData = resetVWAP(bar)
TrackerReset(bar) ==
  /\ trackerCall' = [op |-> "resetVWAP", threw |-> FALSE, bars |-> <<bar>>,
                     before |-> tracker]
  /\ tracker' = resetVWAP(bar)
  /\ trackerClean' = (IsNull(bar) \/ ValidCandle(bar))
  /\ absorbs' = 0
  /\ UNCHANGED <<sizing, formatting, analysis,
                 simulation, executorVars, riskVars>>

\* vwapData = updateVWAP(vwapData, bar)
TrackerUpdate(bar) ==
  /\ absorbs < MaxAbsorbs
  /\ trackerCall' = [op |-> "updateVWAP", threw |-> FALSE, bars |-> <<bar>>,
                     before |-> tracker]
  /\ tracker' = updateVWAP(tracker, bar)
  /\ trackerClean' = (trackerClean /\ ~IsNull(bar) /\ bar.high > 0 /\ bar.low > 0
                        /\ bar.close > 0 /\ bar.volume >= 0)
  /\ absorbs' = absorbs + 1
  /\ UNCHANGED <<sizing, formatting, analysis,
                 simulation, executorVars, riskVars>>

\* calculateVWAPOrderSize(baseSize, currentPrice, vwap, alpha, maxMultiplier, minMultiplier)
SizeOrder(baseSize, currentPrice, vwap, alpha, maxMultiplier, minMultiplier) ==
  /\ sizing' = [called |-> TRUE, baseSize |-> baseSize, currentPrice |-> currentPrice,
                vwap |-> vwap, alpha |-> alpha, maxMultiplier |-> maxMultiplier,
                minMultiplier |-> minMultiplier,
                out |-> calculateVWAPOrderSize(baseSize, currentPrice, vwap, alpha,
                                               maxMultiplier, minMultiplier)]
  /\ UNCHANGED <<tracker, trackerCall, trackerClean, absorbs, formatting, analysis,
                 simulation, executorVars, riskVars>>

(***************************************************************************)
(* Specifications.                                                         *)
(***************************************************************************)
\* a monitor nobody uses
RiskIdle ==
  /\ limits = DefaultRiskLimits
  /\ riskSide = "buy"
  /\ startPrice = 0
  /\ isHalted = FALSE
  /\ alerts = <<>>
  /\ lastCheck = NoCheck
  /\ criticalPending = FALSE
  /\ activeAlerts = <<>>

ExecutorNext ==
  \/ \E c \in Configs, cs \in CandleSeqs : Execute(c, cs)
  \/ ValidateReturns
  \/ \E mi \in MarketInfos : MarketInfoReturns(mi)
  \/ \E book \in Books : FetchReturns(book)
  \/ \E outcome \in PlaceOrderOutcomes : PlaceOrderReturns(outcome)
  \/ AfterOrderPlaced
  \/ AfterOrderError
  \/ DelayElapsed
  \/ Settle
  \/ Stop

\* one executor and its caller
Init == ExecutorInit /\ RiskIdle /\ FunctionsIdle
Next == ExecutorNext
Spec == Init /\ [][Next]_vars

(***************************************************************************)
(* The same executor with callbacks that may throw.  A throw of onError    *)
(* (the outer catch) goes through the finally block like its return, and   *)
(* a throw of the log call of stop() reaches only the caller of stop().    *)
(***************************************************************************)
\* execute(): the log call before the try block throws; the call is rejected
\* after the fields were initialised, and neither catch nor finally runs
StartLogThrows(c, cs) ==
  /\ ~AlreadyInProgress
  /\ runs < MaxRuns
  /\ isExecuting' = TRUE
  /\ shouldStop' = FALSE
  /\ orderResults' = <<>>
  /\ executionState' = [executionState EXCEPT
                          !.status = "executing", !.totalOrders = c.totalOrders,
                          !.currentOrder = 0, !.successfulOrders = 0,
                          !.failedOrders = 0, !.totalExecuted = 0]
  /\ config' = c
  /\ candles' = cs
  /\ pc' = "idle"
  /\ i' = 0
  /\ assetDecimals' = 0
  /\ vwapData' = initializeVWAP(<<>>)
  /\ baseOrderSize' = Rat(0, 1)
  /\ order' = NoOrder
  /\ runs' = runs + 1
  /\ rejected' = FALSE
  /\ placed' = <<>>
  /\ delays' = 0
  /\ stopPoint' = [NoStop EXCEPT !.earlier = stopPoint.called \/ stopPoint.earlier]
  /\ calls' = NoCalls
  /\ UNCHANGED privateKey
  /\ UNCHANGED <<riskVars, functionVars>>

\* a log call between the start of the try block and the loop throws (in
\* validateConfiguration, in getMarketInformation, or one of the two of
\* execute): the outer catch
SetupLogThrows ==
  /\ \/ pc = "validateConfiguration" /\ validateConfiguration(config, privateKey)
     \/ pc = "getMarketInfo"
  /\ RunFails
  /\ UNCHANGED <<privateKey, isExecuting, shouldStop, orderResults, config, candles,
                 assetDecimals, vwapData, baseOrderSize, order,
                 runs, rejected, placed, delays, stopPoint>>
  /\ UNCHANGED <<riskVars, functionVars>>

\* a log call of executeOrder throws, before the order is submitted or after
\* placeOrder has returned: the inner catch, handleOrderError
OrderLogThrows ==
  /\ pc \in {"fetchOrderBook", "placeOrder"}
  /\ handleOrderError("callback")
  /\ UNCHANGED <<privateKey, isExecuting, shouldStop, i, config, candles,
                 assetDecimals, vwapData, baseOrderSize, order,
                 runs, rejected, placed, delays, stopPoint>>
  /\ UNCHANGED <<riskVars, functionVars>>

\* onOrderPlaced (onProgress is then not reached), or onProgress or the log
\* call of the wait, throws after the result was pushed and counted: the
\* inner catch, handleOrderError
OrderCallbackThrows(callback) ==
  /\ pc = "onOrderPlaced"
  /\ handleOrderErrorAfter("callback",
        IF callback = "onOrderPlaced" THEN [calls EXCEPT !.onProgress = @ - 1] ELSE calls)
  /\ UNCHANGED <<privateKey, isExecuting, shouldStop, i, config, candles,
                 assetDecimals, vwapData, baseOrderSize, order,
                 runs, rejected, placed, delays, stopPoint>>
  /\ UNCHANGED <<riskVars, functionVars>>

\* onOrderPlaced or the log call of handleOrderError throws: out of the inner
\* catch into the outer one
OrderErrorCallbackThrows ==
  /\ pc = "onOrderError"
  /\ RunFails
  /\ UNCHANGED <<privateKey, isExecuting, shouldStop, orderResults, config, candles,
                 assetDecimals, vwapData, baseOrderSize, order,
                 runs, rejected, placed, delays, stopPoint>>
  /\ UNCHANGED <<riskVars, functionVars>>

\* onComplete throws: the outer catch
CompleteCallbackThrows ==
  /\ pc = "onComplete"
  /\ RunFails
  /\ UNCHANGED <<privateKey, isExecuting, shouldStop, orderResults, config, candles,
                 assetDecimals, vwapData, baseOrderSize, order,
                 runs, rejected, placed, delays, stopPoint>>
  /\ UNCHANGED <<riskVars, functionVars>>

\* the inputs of the runs with throwing callbacks: two slices
CallbackConfigs == {c \in Configs : c.totalOrders = 2 /\ c.minMultiplier = Half}
CallbackBooks == {book \in Books : book.bids # <<Level(9990, 50)>>}
CallbackMarketInfos == {mi \in MarketInfos : mi.szDecimals = Absent}

CallbacksNext ==
  \/ \E c \in CallbackConfigs : Execute(c, <<>>)
  \/ ValidateReturns
  \/ \E mi \in CallbackMarketInfos : MarketInfoReturns(mi)
  \/ \E book \in CallbackBooks : FetchReturns(book)
  \/ \E outcome \in PlaceOrderOutcomes : PlaceOrderReturns(outcome)
  \/ AfterOrderPlaced
  \/ AfterOrderError
  \/ DelayElapsed
  \/ Settle
  \/ Stop
  \/ \E c \in CallbackConfigs : StartLogThrows(c, <<>>)
  \/ SetupLogThrows
  \/ OrderLogThrows
  \/ \E callback \in {"onOrderPlaced", "onProgress"} : OrderCallbackThrows(callback)
  \/ OrderErrorCallbackThrows
  \/ CompleteCallbackThrows

InitCallbacks == Init /\ privateKey = "0x32bytes"
SpecCallbacks == InitCallbacks /\ [][CallbacksNext]_vars

\* every external call and every delay of a run in progress terminates, and
\* a callback that was called returns or throws
RunProceeds ==
  /\ WF_vars(ValidateReturns)
  /\ WF_vars(\E mi \in CallbackMarketInfos : MarketInfoReturns(mi))
  /\ WF_vars(\E book \in CallbackBooks : FetchReturns(book))
  /\ WF_vars(\E outcome \in PlaceOrderOutcomes : PlaceOrderReturns(outcome))
  /\ WF_vars(AfterOrderPlaced)
  /\ WF_vars(AfterOrderError)
  /\ WF_vars(DelayElapsed)
  /\ WF_vars(Settle)

SpecCallbacksFair == SpecCallbacks /\ RunProceeds

\* one risk monitor and its caller; prices in milli-dollars, sizes in tokens
OrderSizes == {0, 8, 20}
StartPrices == {10000}
CurrentPrices == StartPrices \cup {3200000}
ExecutedVolumes == {0, 30000}
\* the volumes whose exposure at this price is a number of the model
VolumesAt(currentPrice) == {v \in ExecutedVolumes : v <= 2000000000 \div currentPrice}

RiskNext ==
  \/ \E price \in StartPrices : initialize(price)
  \/ \E orderSize \in OrderSizes, currentPrice \in CurrentPrices, book \in Books :
     \E executedVolume \in VolumesAt(currentPrice) :
       checkRiskLimits(orderSize, currentPrice, executedVolume, book)
  \/ getActiveAlerts
  \/ resumeExecution
  \/ clearAlerts

InitRisk == ExecutorInit /\ privateKey = "0x32bytes" /\ RiskInit /\ FunctionsIdle
SpecRisk == InitRisk /\ [][RiskNext]_vars

\* one executor with a risk monitor beside it, as the engine composes them
SystemConfigs == {c \in ValidConfigs : c.totalOrders = 2}
SystemNext ==
  \/ \E c \in SystemConfigs : Execute(c, <<>>)
  \/ ValidateReturns
  \/ MarketInfoReturns([found |-> TRUE, szDecimals |-> 0])
  \/ \E book \in Books : FetchReturns(book)
  \/ \E outcome \in PlaceOrderOutcomes : PlaceOrderReturns(outcome)
  \/ AfterOrderPlaced
  \/ AfterOrderError
  \/ DelayElapsed
  \/ Settle
  \/ Stop
  \/ initialize(10000)
  \/ \E book \in {b \in Books : b.asks # <<>>} : checkRiskLimits(8, 10000, 0, book)
  \/ resumeExecution
  \/ clearAlerts

InitSystem == ExecutorInit /\ privateKey = "0x32bytes" /\ RiskIdle /\ FunctionsIdle
SpecSystem == InitSystem /\ [][SystemNext]_vars

\* one VWAP state and its caller
VWAPNext ==
  \/ \E cs \in BarSeqs : TrackerInitialize(cs)
  \/ \E bar \in Bars : TrackerReset(bar)
  \/ \E bar \in Bars : TrackerUpdate(bar)

InitVWAP == ExecutorInit /\ privateKey = "0x32bytes" /\ RiskIdle /\ FunctionsIdle
SpecVWAP == InitVWAP /\ [][VWAPNext]_vars

\* validateHyperliquidPrice(formatHyperliquidPrice(price, szDecimals, isSpot), szDecimals, isSpot)
FormatPrice(price, szDecimals, isSpot) ==
  /\ \E out \in {formatHyperliquidPrice(price, szDecimals, isSpot)} :
       formatting' = [called |-> TRUE, tenDigits |-> FALSE, price |-> price,
                      szDecimals |-> szDecimals, isSpot |-> isSpot, threw |-> out.threw,
                      valid |-> ~out.threw /\ validateHyperliquidPrice(out.px, szDecimals, isSpot)]
  /\ UNCHANGED <<tracker, trackerCall, trackerClean, absorbs, sizing, analysis,
                 simulation, executorVars, riskVars>>

\* the same call on the price whole + 1/2
FormatTenDigitPrice(whole, szDecimals, isSpot) ==
  /\ \E out \in {formatHyperliquidPriceTenDigits(whole, szDecimals, isSpot)} :
       formatting' = [called |-> TRUE, tenDigits |-> TRUE, price |-> whole,
                      szDecimals |-> szDecimals, isSpot |-> isSpot, threw |-> out.threw,
                      valid |-> ~out.threw /\ validateHyperliquidPriceTenDigits(out.px, szDecimals, isSpot)]
  /\ UNCHANGED <<tracker, trackerCall, trackerClean, absorbs, sizing, analysis,
                 simulation, executorVars, riskVars>>

\* the formatter and its validator
FormatNext ==
  \/ \E price \in FormatPrices, szDecimals \in SzDecimals, isSpot \in BOOLEAN :
       FormatPrice(price, szDecimals, isSpot)
  \/ \E whole \in TenDigitPrices, szDecimals \in SzDecimals, isSpot \in BOOLEAN :
       FormatTenDigitPrice(whole, szDecimals, isSpot)

InitFormat == ExecutorInit /\ privateKey = "0x32bytes" /\ RiskIdle /\ FunctionsIdle
SpecFormat == InitFormat /\ [][FormatNext]_vars

\* slippageInfo = calculateSlippage(orderBook, size, isBuy)
CalculateSlippage(orderBook, size, isBuy) ==
  /\ \E out \in {calculateSlippage(orderBook, size, isBuy)} :
       analysis' = [NoAnalysis EXCEPT !.op = "calculateSlippage", !.orderBook = orderBook,
                                      !.size = size, !.isBuy = isBuy, !.slippageInfo = out]
  /\ UNCHANGED <<tracker, trackerCall, trackerClean, absorbs, sizing, formatting,
                 simulation, executorVars, riskVars>>

\* constraint = checkVolumeConstraints(orderBook, totalVolume, isBuy, maxSlippagePercent, maxVolumePercent)
CheckVolumeConstraints(orderBook, totalVolume, isBuy, maxSlippagePercent, maxVolumePercent) ==
  /\ \E out \in {checkVolumeConstraints(orderBook, totalVolume, isBuy,
                                         maxSlippagePercent, maxVolumePercent)} :
       analysis' = [NoAnalysis EXCEPT !.op = "checkVolumeConstraints",
                                      !.orderBook = orderBook, !.size = totalVolume,
                                      !.isBuy = isBuy,
                                      !.maxSlippagePercent = maxSlippagePercent,
                                      !.maxVolumePercent = maxVolumePercent,
                                      !.constraint = out]
  /\ UNCHANGED <<tracker, trackerCall, trackerClean, absorbs, sizing, formatting,
                 simulation, executorVars, riskVars>>

\* the order-book analysis and its callers
DepthNext ==
  \/ \E orderBook \in DepthBooks, size \in DepthSizes, isBuy \in BOOLEAN :
       CalculateSlippage(orderBook, size, isBuy)
  \/ \E orderBook \in DepthBooks, size \in DepthSizes, isBuy \in BOOLEAN,
        maxSlippagePercent \in MaxSlippagePercents, maxVolumePercent \in MaxVolumePercents :
       CheckVolumeConstraints(orderBook, size, isBuy, maxSlippagePercent, maxVolumePercent)

InitDepth == ExecutorInit /\ privateKey = "0x32bytes" /\ RiskIdle /\ FunctionsIdle
SpecDepth == InitDepth /\ [][DepthNext]_vars

\* the sizer and its caller
SizerNext ==
  \E baseSize \in SizerBaseSizes, currentPrice \in SizerPrices, vwap \in SizerVwaps,
     alpha \in SizerAlphas, bounds \in SizerBounds :
    SizeOrder(baseSize, currentPrice, vwap, alpha, bounds[2], bounds[1])

InitSizer == ExecutorInit /\ privateKey = "0x32bytes" /\ RiskIdle /\ FunctionsIdle
SpecSizer == InitSizer /\ [][SizerNext]_vars

(***************************************************************************)
(* simulateVWAPEnhancedTWAP (vwapEnhancedTWAP.ts).  Quantities of the      *)
(* simulation are ratios of tokens; a rounded size is an integer number    *)
(* of SizeUnit, and is handed to the order-book analysis in BookUnit.      *)
(***************************************************************************)
\* a rounded size as a ratio of tokens
Tokens(size) == Rat(size, SizeUnit)

\* assetInfo.szDecimals || 4, and the default kept when getMarketInfo throws
SimulationDecimals(mi) ==
  IF ~mi.found \/ mi.szDecimals = Absent \/ mi.szDecimals = 0
    THEN SimulationDefaultDecimals
    ELSE mi.szDecimals

\* the head of the simulation loop for the locals s: either the function
\* returns its results, or the next slice is sized and rounded and
\* calculateSlippageProtectedOrderSize awaits fetchOrderBook
SimulationLoopHead(s) ==
  IF s.i < s.config.totalOrders /\ s.remainingShares.n > 0
    THEN LET last == Len(s.marketData) - 1
             at == IF s.i + s.config.vwapPeriod < last THEN s.i + s.config.vwapPeriod
                   ELSE last
             currentCandle == s.marketData[at + 1]
             vwapNow == updateVWAP(s.currentVWAPData, currentCandle)
             open == RatAdd(s.remainingShares, s.accumulatedRemainder)
             baseSize == RatMul(open, Rat(1, s.remainingOrders))
             vwapSizing == calculateVWAPOrderSize(baseSize, Rat(currentCandle.close, 1),
                             vwapNow.vwap, s.config.vwapAlpha, s.config.maxMultiplier,
                             s.config.minMultiplier)
             requestedSizeBeforeRounding == RatMin(vwapSizing.adjustedSize, open)
         IN  IF IsNull(currentCandle) THEN [s EXCEPT !.pc = "returned"]
             ELSE [s EXCEPT !.pc = "fetchOrderBook",
                            !.currentVWAPData = vwapNow,
                            !.requestedSize = roundOrderSizeForAsset(
                                                requestedSizeBeforeRounding, s.assetDecimals)]
    ELSE [s EXCEPT !.pc = "returned"]

\* the end of the loop body: the result is pushed, the remaining quantities
\* are updated, and the loop goes on
SimulationRecords(s, executedSize, remainingSize) ==
  SimulationLoopHead(
    [s EXCEPT !.accumulatedRemainder = RatAdd(@, remainingSize),
              !.results = Append(@,
                 [shares |-> executedSize,
                  status |-> IF executedSize.n > 0
                               THEN (IF executedSize = Tokens(s.requestedSize)
                                       THEN "executed" ELSE "partial")
                               ELSE "rejected"]),
              !.remainingShares = RatMinus(@, executedSize),
              !.remainingOrders = @ - 1,
              !.i = @ + 1])

\* simulateVWAPEnhancedTWAP(c, md) up to its first await
Simulate(c, md) ==
  /\ simulation.pc = "idle"
  /\ simulation' = [NoSimulation EXCEPT !.config = c, !.marketData = md,
                       !.pc = IF md = <<>> THEN "threw" ELSE "getMarketInfo"]
  /\ UNCHANGED <<tracker, trackerCall, trackerClean, absorbs, sizing, formatting, analysis,
                 executorVars, riskVars>>

\* await getMarketInfo resumes (or throws, mi.found = FALSE): the precision,
\* the initial VWAP, the loop variables and the first loop head
SimulationMarketInfoReturns(mi) ==
  /\ simulation.pc = "getMarketInfo"
  /\ \E period \in {SubSeq(simulation.marketData, 1,
                      IF simulation.config.vwapPeriod < Len(simulation.marketData)
                        THEN simulation.config.vwapPeriod
                        ELSE Len(simulation.marketData))} :
       simulation' =
         IF initializeVWAPThrows(period)
           THEN [simulation EXCEPT !.pc = "threw", !.metadata = mi,
                                   !.assetDecimals = SimulationDecimals(mi)]
           ELSE SimulationLoopHead(
                  [simulation EXCEPT !.metadata = mi,
                                     !.assetDecimals = SimulationDecimals(mi),
                                     !.currentVWAPData = initializeVWAP(period),
                                     !.remainingShares = Rat(simulation.config.totalSize, 1),
                                     !.remainingOrders = simulation.config.totalOrders,
                                     !.accumulatedRemainder = Rat(0, 1),
                                     !.i = 0])
  /\ UNCHANGED <<tracker, trackerCall, trackerClean, absorbs, sizing, formatting, analysis,
                 executorVars, riskVars>>

\* calculateSlippageProtectedOrderSize after its fetchOrderBook: what it
\* returns as [executedSize, remainingSize], in tokens
calculateSlippageProtectedOrderSize(orderBook, requestedSize, isBuy, maxSlippagePercent, szDecimals) ==
  LET volumeConstraints == checkVolumeConstraints(orderBook,
                             requestedSize \div (SizeUnit \div BookUnit),
                             isBuy, maxSlippagePercent, Rat(ProtectionMaxVolumePercent, 1))
      maxAllowedSize == Rat(volumeConstraints.suggestedMaxVolume.n,
                            volumeConstraints.suggestedMaxVolume.d * BookUnit)
      smaller == RatMin(maxAllowedSize, Tokens(requestedSize))
      executedSizeBeforeRounding == RatMax(Rat(0, 1), smaller)
      executedSize == roundOrderSizeForAsset(executedSizeBeforeRounding, szDecimals)
  IN  IF ~orderBook.available
        THEN [executedSize |-> Rat(0, 1), remainingSize |-> Tokens(requestedSize)]
      ELSE IF volumeConstraints.canHandle
        THEN [executedSize |-> Tokens(requestedSize), remainingSize |-> Rat(0, 1)]
      ELSE [executedSize |-> Tokens(executedSize),
            remainingSize |-> Tokens(requestedSize - executedSize)]

\* await calculateSlippageProtectedOrderSize resumes with the snapshot fetched
SlippageProtectionReturns(orderBook) ==
  /\ simulation.pc = "fetchOrderBook"
  /\ \E protection \in {calculateSlippageProtectedOrderSize(orderBook,
                           simulation.requestedSize, simulation.config.side = "buy",
                           simulation.config.maxSlippagePercent, simulation.assetDecimals)} :
       simulation' = SimulationRecords(simulation, protection.executedSize,
                                       protection.remainingSize)
  /\ UNCHANGED <<tracker, trackerCall, trackerClean, absorbs, sizing, formatting, analysis,
                 executorVars, riskVars>>

\* the catch block of calculateSlippageProtectedOrderSize: the analysis of the
\* snapshot threw (a level of it is null), half of the request is executed
SlippageProtectionFallsBack ==
  /\ simulation.pc = "fetchOrderBook"
  /\ simulation' = SimulationRecords(simulation,
                      RatMul(Tokens(simulation.requestedSize), Half),
                      RatMul(Tokens(simulation.requestedSize), Half))
  /\ UNCHANGED <<tracker, trackerCall, trackerClean, absorbs, sizing, formatting, analysis,
                 executorVars, riskVars>>

SimulationNext ==
  \/ \E c \in SimulationConfigs, md \in MarketDataSeqs : Simulate(c, md)
  \/ \E mi \in SimulationMarketInfos : SimulationMarketInfoReturns(mi)
  \/ \E orderBook \in SimulationBooks : SlippageProtectionReturns(orderBook)
  \/ SlippageProtectionFallsBack

InitSimulation == ExecutorInit /\ privateKey = "0x32bytes" /\ RiskIdle /\ FunctionsIdle
SpecSimulation == InitSimulation /\ [][SimulationNext]_vars

(***************************************************************************)
(* Properties of LiveTWAPExecutor.                                         *)
(***************************************************************************)
RECURSIVE SumOfSizes(_)
SumOfSizes(results) ==
  IF results = <<>> THEN 0 ELSE Head(results).size + SumOfSizes(Tail(results))

Successful(results) == SelectSeq(results, LAMBDA r : r.success)
Failed(results) == SelectSeq(results, LAMBDA r : ~r.success)

\* C1: execute() on an executor whose run is in progress is rejected with an
\* error: no call is accepted while a run is in progress, and the rejected call
\* changes neither the status, the counters, the result log, the cancellation
\* flag, the orders submitted nor the point the run has reached.
C1_ExecuteWhileRunningRejected ==
  [][ /\ isExecuting => runs' = runs
      /\ (~rejected /\ rejected') =>
            /\ isExecuting
            /\ UNCHANGED <<isExecuting, shouldStop, executionState, orderResults,
                           pc, i, config, candles, order, placed, delays, calls>> ]_vars

\* a run during which a second execute() was rejected has completed all its slices
C1_Witness ==
  /\ rejected
  /\ pc = "idle"
  /\ executionState.status = "completed"
  /\ Len(orderResults) = config.totalOrders
  /\ executionState.successfulOrders = config.totalOrders

\* C3: in a run in which every slice succeeded, the sizes of the recorded
\* results add up to config.totalSize exactly.
C3_SizesSumToTotalSize ==
  ( /\ pc = "idle"
    /\ executionState.status = "completed"
    /\ Len(orderResults) = config.totalOrders
    /\ executionState.successfulOrders = config.totalOrders )
  => SumOfSizes(orderResults) = config.totalSize * SizeUnit

\* stop() was first called between two slices: the result of slice k is
\* recorded (0 < k < N) and slice k+1 has not begun
StoppedBetweenSlices ==
  /\ stopPoint.called
  /\ stopPoint.pc \in {"onOrderPlaced", "onOrderError", "delay"}
  /\ 0 < stopPoint.results
  /\ stopPoint.results < config.totalOrders

StoppedDuringSlice ==
  /\ stopPoint.called
  /\ stopPoint.pc \in {"fetchOrderBook", "placeOrder"}

\* C5: after a stop() during a slice, that slice still completes and its result
\* is recorded and counted, no later iteration is started and the inter-slice
\* sleep is not entered any more.
C5_CooperativeCancellation ==
  StoppedDuringSlice =>
    /\ delays = stopPoint.delays
    /\ pc # "delay"
    /\ executionState.currentOrder = stopPoint.results + 1
    /\ Len(placed) <= stopPoint.placed + 1
    /\ pc \in {"fetchOrderBook", "placeOrder"} => Len(orderResults) = stopPoint.results
    /\ pc \in {"onOrderPlaced", "onOrderError", "onComplete", "idle"} =>
         /\ Len(orderResults) = stopPoint.results + 1
         /\ orderResults[Len(orderResults)].orderNumber = stopPoint.results + 1
         /\ executionState.successfulOrders + executionState.failedOrders
              = Len(orderResults)
         /\ executionState.totalExecuted = SumOfSizes(Successful(orderResults))

\* stop() arrived while the order of the first of three slices was outstanding;
\* the order was filled and counted, and the run is over
C5_Witness ==
  /\ StoppedDuringSlice
  /\ stopPoint.pc = "placeOrder"
  /\ stopPoint.results = 0
  /\ config.totalOrders = 3
  /\ pc = "idle"
  /\ executionState.successfulOrders = 1
  /\ executionState.totalExecuted > 0

LoopPositions == {"fetchOrderBook", "placeOrder", "onOrderPlaced", "onOrderError", "delay"}

InvalidCall ==
  /\ runs > 0
  /\ \/ config.asset = ""
     \/ config.totalSize <= 0
     \/ config.totalOrders <= 0
     \/ privateKey = "0xshort"

C2_HaltedRunSubmitsNothing ==
  [][ isHalted => Len(placed') <= Len(placed) ]_vars

(***************************************************************************)
(* Properties of RiskManager.                                              *)
(***************************************************************************)
HasCritical(as) == \E k \in 1..Len(as) : as[k].type = "critical"
HasAlertOn(as, metric) == \E k \in 1..Len(as) : as[k].metric = metric
CriticalMetrics == {"priceDeviation", "estimatedSlippage", "totalExposure"}
WarningMetrics == {"currentSpread", "orderSizeRatio"}

\* the metrics of the call lastCheck' records, made in the current state
MetricsOfCall ==
  calculateRiskMetrics(lastCheck'.orderSize, lastCheck'.currentPrice,
                       lastCheck'.executedVolume, lastCheck'.book, riskSide, startPrice)

PriceDeviationBreached(m) == Exceeds(RatAbs(m.priceDeviation), limits.maxPriceDeviation)
SlippageBreached(m) == Exceeds(m.estimatedSlippage, limits.maxSlippage)
ExposureBreached(m) == Exceeds(m.totalExposure, limits.maxTotalExposure)
SpreadBreached(m) == Exceeds(limits.minSpread, m.currentSpread)
ParticipationBreached(m) == Exceeds(m.orderSizeRatio, limits.maxVolumeRatio)

C7_CanProceedExactly ==
  [][ lastCheck' # lastCheck =>
        /\ lastCheck'.wasHalted = isHalted
        /\ lastCheck'.canProceed = (~isHalted /\ ~HasCritical(lastCheck'.alerts))
        /\ HasCritical(lastCheck'.alerts) => isHalted'
        /\ \A k \in 1..Len(lastCheck'.alerts) :
             (lastCheck'.alerts[k].type = "critical")
               = (lastCheck'.alerts[k].metric \in CriticalMetrics)
        /\ HasAlertOn(lastCheck'.alerts, "priceDeviation")
             = PriceDeviationBreached(MetricsOfCall)
        /\ HasAlertOn(lastCheck'.alerts, "estimatedSlippage")
             = SlippageBreached(MetricsOfCall)
        /\ HasAlertOn(lastCheck'.alerts, "totalExposure")
             = ExposureBreached(MetricsOfCall) ]_vars

\* a call on a monitor that was not halted breached the slippage limit only:
\* it was refused and the monitor is halted
C7_Witness ==
  /\ lastCheck.called
  /\ ~lastCheck.wasHalted
  /\ ~lastCheck.canProceed
  /\ Len(lastCheck.alerts) = 1
  /\ lastCheck.alerts[1].metric = "estimatedSlippage"
  /\ isHalted

\* C8: a call of checkRiskLimits on a monitor that is not halted, breaching
\* only the spread floor and/or the participation limit, appends warning alerts
\* to the log, leaves the monitor not halted and returns canProceed = true.
C8_WarningsNeverHalt ==
  [][ ( /\ lastCheck' # lastCheck
        /\ ~isHalted
        /\ SpreadBreached(MetricsOfCall) \/ ParticipationBreached(MetricsOfCall)
        /\ ~PriceDeviationBreached(MetricsOfCall)
        /\ ~SlippageBreached(MetricsOfCall)
        /\ ~ExposureBreached(MetricsOfCall) ) =>
        /\ lastCheck'.canProceed
        /\ ~isHalted'
        /\ lastCheck'.alerts # <<>>
        /\ \A k \in 1..Len(lastCheck'.alerts) :
             /\ lastCheck'.alerts[k].type = "warning"
             /\ lastCheck'.alerts[k].metric \in WarningMetrics
        /\ alerts' = alerts \o lastCheck'.alerts ]_vars

\* repeated warning-only calls: the log holds three warnings, the monitor is
\* not halted and the last call, which raised both warnings, may proceed
C8_Witness ==
  /\ Len(alerts) >= 3
  /\ \A k \in 1..Len(alerts) : alerts[k].type = "warning"
  /\ ~isHalted
  /\ ~criticalPending
  /\ lastCheck.canProceed
  /\ Len(lastCheck.alerts) = 2

(***************************************************************************)
(* Properties of the run configuration, the submitted prices and the       *)
(* sequencing of a run.                                                    *)
(***************************************************************************)
\* sizing parameters that are sane: positive bounds, minMultiplier at most
\* maxMultiplier, a sensitivity that is not negative
SaneSizing(c) ==
  /\ c.minMultiplier.n > 0
  /\ c.maxMultiplier.n > 0
  /\ ~RatLT(c.maxMultiplier, c.minMultiplier)
  /\ c.vwapAlpha.n >= 0

\* C11: a run whose configuration has minMultiplier above maxMultiplier,
\* a bound that is not positive or a negative sensitivity submits no order
\* and ends with status 'failed'.
C11_UnsoundSizingRejected ==
  (runs > 0 /\ ~SaneSizing(config)) =>
     /\ placed = <<>>
     /\ (pc = "idle" => executionState.status = "failed")

\* the orders submitted for slice k of the current run
SubmittedFor(k) == {n \in 1..Len(placed) : placed[n].orderNumber = k}

Outstanding ==
  {n \in 1..Len(placed) :
     \A k \in 1..Len(orderResults) : orderResults[k].orderNumber # placed[n].orderNumber}

\* C13: at most one submission is outstanding, and it is while placeOrder is
\* awaited; when the order-book fetch of slice i+1 is under way the results of
\* slices 1..i are all recorded; the k-th result is the result of slice k.
C13_OneSliceAtATime ==
  /\ Cardinality(Outstanding) <= 1
  /\ (Outstanding # {}) <=> (pc = "placeOrder")
  /\ (pc = "fetchOrderBook" => Len(orderResults) = i)
  /\ \A k \in 1..Len(orderResults) : orderResults[k].orderNumber = k

\* the fetch of the second slice is under way after the first slice's order was
\* submitted and its result recorded
C13_Witness ==
  /\ pc = "fetchOrderBook"
  /\ i = 1
  /\ Len(placed) = 1
  /\ Len(orderResults) = 1

\* C14: a slice after the first begins (its order-book fetch starts) only
\* when the inter-slice delay has elapsed, whatever the previous slice's outcome.
C14_NoSliceBeforeDelayElapsed ==
  [][ (pc # "fetchOrderBook" /\ pc' = "fetchOrderBook" /\ i' > 0) => pc = "delay" ]_vars

\* the changes of the run status the state machine allows
StatusTransitions ==
  { <<"pending", "executing">>, <<"executing", "completed">>,
    <<"executing", "cancelled">>, <<"executing", "failed">> }

\* C15: every change of executionState.status is pending -> executing or
\* executing -> completed, cancelled or failed; a terminal status never changes.
C15_StatusTransitions ==
  [][ executionState'.status # executionState.status =>
        <<executionState.status, executionState'.status>> \in StatusTransitions ]_vars

\* C16: once the submission of slice k has failed with a wallet or credential
\* failure, slice k is the last slice of the run and the run ends 'failed'.
C16_CredentialFailureAbortsRun ==
  \A k \in 1..Len(orderResults) :
    orderResults[k].error = "Order placement failed" =>
      /\ Len(orderResults) = k
      /\ \A n \in 1..Len(placed) : placed[n].orderNumber <= k
      /\ (pc = "idle" => executionState.status = "failed")

(***************************************************************************)
(* Properties of the VWAP state and of the sizer.                          *)
(***************************************************************************)
\* the bar of the last resetVWAP or updateVWAP call
LastBar == trackerCall.bars[1]

\* cumulativePV / cumulativeVolume of a VWAP state with cumulativeVolume > 0
PVOverVolume(v) == Rat(v.cumulativePV.n, v.cumulativePV.d * v.cumulativeVolume)

C18_InvalidBarSkipped ==
  trackerCall.op = "updateVWAP" =>
     /\ tracker.cumulativeVolume >= trackerCall.before.cumulativeVolume
     /\ (~ValidCandle(LastBar) => tracker = trackerCall.before)

\* the valid bars of a sequence
RECURSIVE ValidBars(_)
ValidBars(cs) ==
  IF cs = <<>> THEN <<>>
  ELSE (IF ValidCandle(Head(cs)) THEN <<Head(cs)>> ELSE <<>>) \o ValidBars(Tail(cs))

\* C19: initializeVWAP does not throw, whatever the bars are, and when at
\* least one bar is valid it returns the volume-weighted typical price of the
\* valid bars, which is positive.
C19_InitializeNeverThrows ==
  trackerCall.op = "initializeVWAP" =>
     /\ ~trackerCall.threw
     /\ (ValidBars(trackerCall.bars) # <<>> =>
           /\ tracker.vwap = Rat(SumPV3(ValidBars(trackerCall.bars)),
                                  3 * SumVolume(ValidBars(trackerCall.bars)))
           /\ tracker.vwap.n > 0)

\* the multiplier the sizer returns for the inputs of the last call with the
\* vwap replaced by v
MultiplierAt(v) ==
  calculateVWAPOrderSize(sizing.baseSize, sizing.currentPrice, v, sizing.alpha,
                         sizing.maxMultiplier, sizing.minMultiplier).multiplier

\* C20: the multiplier calculateVWAPOrderSize returns lies within
\* [minMultiplier, maxMultiplier], and with the other inputs fixed a larger
\* vwap never gives a smaller multiplier.
C20_MultiplierBoundedAndMonotone ==
  sizing.called =>
     /\ ~RatLT(sizing.out.multiplier, sizing.minMultiplier)
     /\ ~RatLT(sizing.maxMultiplier, sizing.out.multiplier)
     /\ \A v \in SizerVwaps :
           RatLT(sizing.vwap, v) => ~RatLT(MultiplierAt(v), sizing.out.multiplier)

\* the inputs of the last sizer call are finite and positive
PositiveInputs ==
  /\ IsFinite(sizing.baseSize) /\ sizing.baseSize.n > 0
  /\ IsFinite(sizing.currentPrice) /\ sizing.currentPrice.n > 0
  /\ IsFinite(sizing.vwap) /\ sizing.vwap.n > 0


\* clamp(1 + alpha * (vwap - currentPrice) / vwap, minMultiplier, maxMultiplier)
\* for the inputs of the last sizer call
ClampedMultiplier ==
  LET raw == RatAdd(RatOne, RatMul(sizing.alpha,
                 RatMul(RatMinus(sizing.vwap, sizing.currentPrice), RatInverse(sizing.vwap))))
  IN  IF RatLT(raw, sizing.minMultiplier) THEN sizing.minMultiplier
      ELSE IF RatLT(sizing.maxMultiplier, raw) THEN sizing.maxMultiplier
      ELSE raw

\* the worked example: alpha 0.5, bounds [0.5, 2], vwap 100, price 98, base 10
IsWorkedExample ==
  /\ sizing.alpha = Half /\ sizing.minMultiplier = Half /\ sizing.maxMultiplier = Two
  /\ sizing.vwap = Rat(100, 1) /\ sizing.currentPrice = Rat(98, 1)
  /\ sizing.baseSize = Rat(10, 1)

\* multiplier and adjusted size follow the clamped formula, and the worked
\* example gives 1.01 and 10.1
FollowsFormula ==
  /\ sizing.out.multiplier = ClampedMultiplier
  /\ sizing.out.adjustedSize = RatMul(sizing.baseSize, ClampedMultiplier)
  /\ (IsWorkedExample => /\ sizing.out.multiplier = Rat(101, 100)
                          /\ sizing.out.adjustedSize = Rat(101, 10))

C22_DegradedMode ==
  (sizing.called /\ (\/ sizing.baseSize.n = 0 \/ ~IsFinite(sizing.baseSize)
                     \/ sizing.currentPrice.n = 0 \/ ~IsFinite(sizing.currentPrice)
                     \/ sizing.vwap.n = 0 \/ ~IsFinite(sizing.vwap))) =>
     /\ sizing.out.multiplier = RatOne
     /\ sizing.out.adjustedSize = sizing.baseSize

\* the precision is one the venue allows
LegalPrecision == formatting.szDecimals <= MaxDecimals(formatting.isSpot)

\* C23: for every positive price and every legal precision, perp or spot,
\* the formatted price passes validateHyperliquidPrice.
C23_FormatThenValidate ==
  (formatting.called /\ LegalPrecision) => (~formatting.threw /\ formatting.valid)

\* the round trip on the prices whose rounding to five significant figures
\* divides by a power of ten that is a double
C23_ExactRounding ==
  (formatting.called /\ LegalPrecision /\ ~formatting.tenDigits)
     => (~formatting.threw /\ formatting.valid)

\* the side an order of the last analysis call trades against
OpposingSide ==
  IF analysis.isBuy THEN analysis.orderBook.asks ELSE analysis.orderBook.bids

\* C24: calculateSlippage with size 0 returns slippagePercent 0 and
\* wouldExecute true for every order book; with a size above the total size
\* of the opposing side it returns wouldExecute false and slippagePercent 100.
C24_ZeroAndOversize ==
  analysis.op = "calculateSlippage" =>
    /\ (analysis.size = 0 =>
          /\ analysis.slippageInfo.slippagePercent = Rat(0, 1)
          /\ analysis.slippageInfo.wouldExecute)
    /\ (analysis.size > SumSz(OpposingSide) =>
          /\ ~analysis.slippageInfo.wouldExecute
          /\ analysis.slippageInfo.slippagePercent = Rat(100, 1))

\* the positions of a sequence of levels that hold a best price
BestPositions(levels, isBuy) ==
  { k \in 1 .. Len(levels) :
      \A j \in 1 .. Len(levels) : ~GoesBefore(levels[j], levels[k], isBuy) }

RemoveAt(seq, k) == SubSeq(seq, 1, k - 1) \o SubSeq(seq, k + 1, Len(seq))

\* the cost of size tokens taken from the best level left, then the next best
RECURSIVE BestFirstCost(_, _, _)
BestFirstCost(levels, size, isBuy) ==
  IF size <= 0 \/ levels = <<>> THEN 0
  ELSE LET k     == CHOOSE p \in BestPositions(levels, isBuy) : TRUE
           taken == IF size < levels[k].sz THEN size ELSE levels[k].sz
       IN  taken * levels[k].px + BestFirstCost(RemoveAt(levels, k), size - taken, isBuy)

BestPrice(levels, isBuy) == levels[CHOOSE p \in BestPositions(levels, isBuy) : TRUE].px

\* the example: asks 5 @ 10.50 and 5 @ 10.00, in that order, size 8, buy
IsSlippageExample ==
  /\ analysis.orderBook.asks = <<Level(10500, 5), Level(10000, 5)>>
  /\ analysis.size = 8
  /\ analysis.isBuy

\* C26: for a positive size the opposing side can fill, calculateSlippage
\* takes the levels best price first whatever their order in the input:
\* estimatedPrice is the size-weighted average of the fills, slippagePercent
\* is |estimatedPrice - bestPrice| / bestPrice * 100, and the example gives
\* 10.1875 and 1.875.
C26_BestPriceFirst ==
  (analysis.op = "calculateSlippage" /\ analysis.size > 0
     /\ analysis.size <= SumSz(OpposingSide)) =>
    LET cost == BestFirstCost(OpposingSide, analysis.size, analysis.isBuy)
        best == BestPrice(OpposingSide, analysis.isBuy)
        info == analysis.slippageInfo
    IN  /\ info.wouldExecute
        /\ info.estimatedPrice = Rat(cost, analysis.size)
        /\ info.slippagePercent
             = RatMul(Rat(100, 1), RatAbs(RatMul(RatMinus(info.estimatedPrice, Rat(best, 1)),
                                                Rat(1, best))))
        /\ (IsSlippageExample => /\ info.estimatedPrice = Rat(101875, 10)
                                 /\ info.slippagePercent = Rat(1875, 1000))

\* the example has been computed on the book whose asks are out of order
C26_Witness ==
  /\ analysis.op = "calculateSlippage"
  /\ IsSlippageExample
  /\ analysis.slippageInfo.wouldExecute

\* the requested size is above maxVolumePercent of the depth of the side
TooLargeForDepth ==
  GreaterThan(Rat(100 * analysis.size, 1),
              RatMul(analysis.maxVolumePercent, Rat(SumSz(OpposingSide), 1)))

Unfillable == analysis.size > SumSz(OpposingSide)

TooMuchSlippage ==
  LET info == calculateSlippage(analysis.orderBook, analysis.size, analysis.isBuy)
  IN  info.wouldExecute /\ GreaterThan(info.slippagePercent, analysis.maxSlippagePercent)

\* C25: for a positive requested size that is above maxVolumePercent of the
\* depth of the relevant side, or that the book cannot fill, or whose
\* estimated slippage is above maxSlippagePercent, checkVolumeConstraints
\* returns canHandle false and a suggestedMaxVolume below the requested size.
C25_RejectsWithSmallerSuggestion ==
  (analysis.op = "checkVolumeConstraints" /\ analysis.size > 0
     /\ (TooLargeForDepth \/ Unfillable \/ TooMuchSlippage)) =>
    /\ ~analysis.constraint.canHandle
    /\ analysis.constraint.suggested
    /\ RatLT(analysis.constraint.suggestedMaxVolume, Rat(analysis.size, 1))

\* the example: asks 5 @ 10.00 and 5 @ 10.50, request 8, tolerance 1%,
\* rejected for its slippage
C25_Witness ==
  /\ analysis.op = "checkVolumeConstraints"
  /\ analysis.orderBook.asks = <<Level(10000, 5), Level(10500, 5)>>
  /\ analysis.size = 8 /\ analysis.isBuy
  /\ analysis.maxSlippagePercent = Rat(1, 1)
  /\ ~TooLargeForDepth /\ ~Unfillable /\ TooMuchSlippage
  /\ ~analysis.constraint.canHandle

(***************************************************************************)
(* Properties of RiskManager against the order-book analysis, and of its   *)
(* halted flag.                                                            *)
(***************************************************************************)
\* the estimate of the order-book analysis for the last checkRiskLimits call,
\* as a fraction; an unavailable snapshot counts as an empty book
DepthEstimate ==
  LET book == lastCheck.book
      info == calculateSlippage(book, lastCheck.orderSize, riskSide = "buy")
  IN  IF ~book.available THEN RatOne
      ELSE Rat(info.slippagePercent.n, 100 * info.slippagePercent.d)

\* the metrics of the last checkRiskLimits call
MetricsOfLastCheck ==
  calculateRiskMetrics(lastCheck.orderSize, lastCheck.currentPrice,
                       lastCheck.executedVolume, lastCheck.book, riskSide, startPrice)

\* C27: the slippage checkRiskLimits compares against maxSlippage equals the
\* estimate of calculateSlippage (slippagePercent / 100) for the same
\* snapshot, order size and side; an unavailable snapshot or an empty side
\* counts as 100% for a positive order size.
C27_SlippageIsDepthEstimate ==
  (lastCheck.called /\ lastCheck.orderSize > 0) =>
     MetricsOfLastCheck.estimatedSlippage = DepthEstimate

\* C28: isHalted goes from true to false only through resumeExecution() or
\* initialize(); checkRiskLimits, getActiveAlerts and clearAlerts never clear
\* it; initialize(startPrice) leaves the monitor not halted, with an empty
\* alert log and the given start price.
C28_HaltClearedOnlyByResumeOrInitialize ==
  [][ /\ (isHalted /\ ~isHalted') =>
            (resumeExecution \/ \E price \in StartPrices : initialize(price))
      /\ (isHalted /\ (getActiveAlerts \/ clearAlerts \/ lastCheck' # lastCheck)) => isHalted'
      /\ \A price \in StartPrices :
            initialize(price) => (~isHalted' /\ alerts' = <<>> /\ startPrice' = price) ]_vars

\* a monitor still halted after its log was cleared and a further check refused
C28_Witness ==
  /\ isHalted
  /\ criticalPending
  /\ alerts = <<>>
  /\ lastCheck.called /\ lastCheck.wasHalted

\* the notional of the last checkRiskLimits call, in dollars
OrderValue == Rat(lastCheck.orderSize * lastCheck.currentPrice, 1000)

\* C29: checkRiskLimits raises an alert whenever the notional of the order
\* (orderSize * currentPrice) exceeds limits.maxOrderValue.
C29_OrderValueLimitEnforced ==
  (lastCheck.called /\ Exceeds(OrderValue, limits.maxOrderValue)) => lastCheck.alerts # <<>>

(***************************************************************************)
(* The VWAP state inside a run.                                            *)
(***************************************************************************)
\* C30: in every slice the VWAP state is advanced by absorbing the freshest
\* bar before the sizer is called: the state a slice was sized with is not
\* the initial state initializeVWAP(candles) any more.
C30_VWAPAdvancedBeforeSizing ==
  (pc = "placeOrder" /\ order.orderNumber >= 1) => vwapData # initializeVWAP(candles)

(***************************************************************************)
(* The quantity a run may execute.                                         *)
(***************************************************************************)
\* C35: at every point of a run totalExecuted does not exceed
\* config.totalSize, whatever the market prices and the multiplier bounds.
C35_TotalExecutedWithinTarget ==
  isExecuting => executionState.totalExecuted <= config.totalSize * SizeUnit

\* C37: every order handed to placeOrder has a strictly positive size and a
\* strictly positive limit price; a slice whose size rounds to 0 at the
\* instrument's precision is not submitted.
C37_SubmittedOrdersPositive ==
  \A k \in 1..Len(placed) : placed[k].size > 0 /\ placed[k].price > 0

(***************************************************************************)
(* How a run ends.                                                         *)
(***************************************************************************)
\* the run has left its loop and its final status is set
RunEnded ==
  runs > 0 /\ pc \in {"onComplete", "idle"} /\ executionState.status \in {"completed", "cancelled"}

\* C38: a run that ends 'cancelled' has attempted strictly fewer than
\* totalOrders slices; a run in which all slices were attempted ends
\* 'completed', also when stop() was called during the last slice.
C38_CancelledMeansSlicesSkipped ==
  (RunEnded /\ executionState.status = "cancelled") =>
     Len(orderResults) < config.totalOrders

RelevantSide(orderBook, isBuy) == IF isBuy THEN orderBook.asks ELSE orderBook.bids

\* C40: the verdict of checkVolumeConstraints depends only on the side of the
\* book the order takes: every book that agrees with the one of the call on
\* that side gives the same canHandle and suggestedMaxVolume, also when its
\* other side is empty.
C40_VerdictDependsOnRelevantSideOnly ==
  analysis.op = "checkVolumeConstraints" =>
    \A other \in DepthBooks :
       RelevantSide(other, analysis.isBuy) = RelevantSide(analysis.orderBook, analysis.isBuy) =>
          LET verdict == checkVolumeConstraints(other, analysis.size, analysis.isBuy,
                           analysis.maxSlippagePercent, analysis.maxVolumePercent)
          IN  /\ verdict.canHandle = analysis.constraint.canHandle
              /\ verdict.suggestedMaxVolume = analysis.constraint.suggestedMaxVolume

(***************************************************************************)
(* Properties of simulateVWAPEnhancedTWAP.                                 *)
(***************************************************************************)
RECURSIVE SumOfShares(_)
SumOfShares(results) ==
  IF results = <<>> THEN Rat(0, 1)
  ELSE RatAdd(Head(results).shares, SumOfShares(Tail(results)))

\* C36: after any sequence of full, partial and rejected slices the shares of
\* all results of a simulation add up to at most config.totalSize, and
\* remainingShares is never negative.
C36_SimulatedSharesWithinTarget ==
  /\ ~RatLT(Rat(simulation.config.totalSize, 1), SumOfShares(simulation.results))
  /\ simulation.remainingShares.n >= 0

\* C34: a size precision of 0 reported by the instrument metadata is kept as
\* 0 by the simulation, so its sizes are whole units; the default precision
\* is used only when the metadata carries none.
C34_ZeroPrecisionKept ==
  (simulation.pc \in {"fetchOrderBook", "returned"} /\ simulation.metadata.found
     /\ simulation.metadata.szDecimals = 0) =>
       /\ simulation.assetDecimals = 0
       /\ simulation.requestedSize % SizeUnit = 0

(***************************************************************************)
(* Properties of a run whose callbacks may throw.                          *)
(***************************************************************************)
\* C31: at every point of a run, also when a callback throws, the log holds
\* exactly one entry per slice attempted so far, in strictly increasing
\* orderNumber; successfulOrders + failedOrders is the number of entries;
\* totalExecuted is the sum of the sizes of the successful entries; and
\* entries are never changed or removed during the run.
C31_OneEntryPerSlice ==
  /\ [](/\ \A k \in 1..Len(orderResults) : orderResults[k].orderNumber = k
        /\ Len(orderResults) <= executionState.currentOrder
        /\ executionState.successfulOrders + executionState.failedOrders = Len(orderResults)
        /\ executionState.totalExecuted = SumOfSizes(Successful(orderResults)))
  /\ [][runs' = runs =>
          /\ Len(orderResults') >= Len(orderResults)
          /\ SubSeq(orderResults', 1, Len(orderResults)) = orderResults]_vars

\* C32: every result appended to the log is delivered exactly once through
\* onOrderPlaced, a failed one with its error reason; and every accepted run
\* ends with exactly one terminal notification, onComplete when its status is
\* completed or cancelled, onError when it is failed, never both.
C32_DeliveredOnceAndOneTerminalNotification ==
  /\ calls.delivered = orderResults
  /\ calls.onOrderPlaced = Len(orderResults)
  /\ \A k \in 1..Len(orderResults) : ~orderResults[k].success => orderResults[k].error # ""
  /\ (runs > 0 /\ pc = "idle") =>
        /\ calls.onComplete + calls.onError = 1
        /\ executionState.status \in {"completed", "cancelled", "failed"}
        /\ (executionState.status = "failed") = (calls.onError = 1)

\* C33: every accepted execute call eventually finishes, given that every
\* external call and every delay terminates; and whenever no call is in
\* progress any more isRunning() is false, so that a new execute call is
\* accepted.
C33_RunFinishesAndExecutorIsFree ==
  /\ (pc # "idle") ~> (pc = "idle")
  /\ [](pc = "idle" => ~isExecuting)

====
